---------------------------- MODULE Spec2Model ----------------------------
(***************************************************************************)
(* CipherLink: a duplex AES-256-GCM text channel between a client and a    *)
(* server (src/client.c, src/server.c) over the frame codec of             *)
(* src/src/encryption.c.                                                   *)
(*                                                                         *)
(* Bytes are the integers 0..255 and buffers are sequences of bytes.       *)
(* OpenSSL's AES-256-GCM is an external library: it is modelled as a       *)
(* counter-mode stream cipher (ciphertext = plaintext XOR keystream(key,   *)
(* iv), one byte per byte, no padding) with a 16-byte tag computed over    *)
(* key, iv, ciphertext and its length.                                     *)
(*                                                                         *)
(* The channel is one process (the client, or the server's handler of one  *)
(* connection) with its sender, receiver and main threads; the user at its *)
(* terminal, the peer and the network are its environment. recv returns 0  *)
(* once the peer has closed and fails on a descriptor that is already      *)
(* closed; a recv that is waiting when another thread closes the           *)
(* descriptor either fails or keeps waiting on the connection.             *)
(***************************************************************************)
EXTENDS Integers, Sequences, FiniteSets, TLC

(***************************************************************************)
(* Program constants                                                       *)
(***************************************************************************)
IV_SIZE == 12
TAG_SIZE == 16
KEY_SIZE == 32
SECURE_COMM_SUCCESS == 0
SECURE_COMM_ERR_INIT == -1
SECURE_COMM_ERR_ENCRYPT == -10
SECURE_COMM_ERR_DECRYPT == -11
LOG_LEVEL_ERROR == 0
LOG_LEVEL_WARN == 1
LOG_LEVEL_INFO == 2

(***************************************************************************)
(* Bounds of the model                                                     *)
(***************************************************************************)
\* The program's BUFFER_SIZE is 4096. The flows are run with a smaller buffer:
\* what they depend on is kept, IV_SIZE + TAG_SIZE < BUFFER_SIZE, fgets
\* returning at most BUFFER_SIZE - 1 bytes and recv at most BUFFER_SIZE.
BUFFER_SIZE == 32
\* lines the user types on the terminal in one run
MaxLines == 1
\* frames the peer sends in one run
MaxPeerFrames == 1
\* frames the network corrupts or truncates in one run
MaxTamper == 1
\* library calls that fail for lack of resources in one run
MaxFaults == 1
\* values RAND_bytes can draw
MaxNonces == 2
\* entries of the terminal and of the log file that are kept: the last ones
Window == 2
\* longest plaintext of the codec harness
MaxPlainLen == 2
\* frames the peer sends when the inbound flow is checked on its own
MaxInboundFrames == 3
\* connections clients make to the server
MaxClients == 2
\* library calls of the server that fail
MaxServerFaults == 1
\* lines typed at the server's terminal
MaxServerLines == 1
\* frames the clients send to the server
MaxClientFrames == 1

Byte == 0..255
NL == 10
\* "exit"
EXIT == <<101, 120, 105, 116>>
\* "hi"
HI == <<104, 105>>

Min(a, b) == IF a < b THEN a ELSE b

(***************************************************************************)
(* AES-256-GCM as the code uses it                                         *)
(***************************************************************************)
RECURSIVE Xor(_, _, _)
\* bitwise exclusive or of the low n bits of a and b
Xor(a, b, n) ==
    IF n = 0 THEN 0
    ELSE ((a + b) % 2) + 2 * Xor(a \div 2, b \div 2, n - 1)

\* exclusive or of two bytes
ByteXor == [a \in Byte |-> [b \in Byte |-> Xor(a, b, 8)]]

\* keystream byte i of the counter-mode cipher keyed by key and iv
GcmKeystream(key, iv, i) ==
    (key[((i - 1) % KEY_SIZE) + 1] + 7 * iv[((i - 1) % IV_SIZE) + 1]
        + 13 * ((i - 1) \div KEY_SIZE) + i) % 256

\* EVP_EncryptUpdate / EVP_DecryptUpdate: len bytes of input XOR keystream
GcmCrypt(key, iv, input, len) ==
    [i \in 1..len |-> ByteXor[input[i]][GcmKeystream(key, iv, i)]]

GHashModulus == 65521

RECURSIVE GHash(_, _, _)
\* position-weighted checksum of s[lo..hi] modulo a prime
GHash(s, lo, hi) ==
    IF lo > hi THEN 0
    ELSE IF lo = hi THEN (lo * (s[lo] + 1)) % GHashModulus
    ELSE LET mid == (lo + hi) \div 2
         IN  (GHash(s, lo, mid) + GHash(s, mid + 1, hi)) % GHashModulus

\* the 16-byte authentication tag over key, iv, ciphertext and its length
GcmTag(key, iv, ct, len) ==
    LET h == GHash(ct, 1, len)
        mix(j) == CASE j = 1 -> h % 256
                    [] j = 2 -> h \div 256
                    [] j = 3 -> len % 256
                    [] j = 4 -> len \div 256
                    [] OTHER -> 0
    IN  [j \in 1..TAG_SIZE |->
            (key[j] + 3 * key[j + TAG_SIZE] + 5 * iv[((j - 1) % IV_SIZE) + 1]
                + mix(j)) % 256]

\* the steps of encrypt_data that can fail
EncryptFaults == {"none", "args", "ctx", "rand", "init", "update", "final", "tag"}

\* encrypt_data: iv is the nonce RAND_bytes draws; fault names the step that fails
encrypt_data(plaintext, plaintext_len, key, nonce, fault) ==
    LET ct == GcmCrypt(key, nonce, plaintext, plaintext_len)
        ivSet == fault \notin {"args", "ctx", "rand"}
        ctSet == fault \notin {"args", "ctx", "rand", "init", "update"}
        lenSet == fault \in {"none", "tag"}
    IN  [ret |-> IF fault = "none" THEN SECURE_COMM_SUCCESS
                 ELSE SECURE_COMM_ERR_ENCRYPT,
         iv_written |-> ivSet,
         iv |-> IF ivSet THEN nonce ELSE <<>>,
         ciphertext |-> IF ctSet THEN ct ELSE <<>>,
         len_written |-> lenSet,
         ciphertext_len |-> IF lenSet THEN plaintext_len ELSE 0,
         tag |-> IF fault = "none"
                 THEN GcmTag(key, nonce, ct, plaintext_len) ELSE <<>>]

\* a final step that does not compare the tag
EVP_DecryptFinal_ex_NoCheck(key, iv, ciphertext, ciphertext_len, tag) == 1

\* EVP_DecryptFinal_ex: 1 when the tag set by EVP_CTRL_GCM_SET_TAG verifies
EVP_DecryptFinal_ex(key, iv, ciphertext, ciphertext_len, tag) ==
    IF tag = GcmTag(key, iv, ciphertext, ciphertext_len) THEN 1 ELSE 0

\* the steps of decrypt_data that can fail apart from tag verification
DecryptFaults == {"none", "args", "ctx", "init", "update", "settag"}

\* a decrypt_data that never writes *plaintext_len
decrypt_data_NoLength(ciphertext, ciphertext_len, key, iv, tag, fault) ==
    LET ok == /\ fault = "none"
              /\ 1 = EVP_DecryptFinal_ex(key, iv, ciphertext, ciphertext_len, tag)
    IN  [ret |-> IF ok THEN SECURE_COMM_SUCCESS ELSE SECURE_COMM_ERR_DECRYPT,
         plaintext |-> GcmCrypt(key, iv, ciphertext, ciphertext_len),
         len_written |-> FALSE,
         plaintext_len |-> 0,
         stderr |-> ~ok]

\* a decrypt_data that reports invalid arguments with a value of their own
decrypt_data_ArgsValue(ciphertext, ciphertext_len, key, iv, tag, fault) ==
    LET updated == fault \notin {"args", "ctx", "init", "update"}
        ok == /\ fault = "none"
              /\ 1 = EVP_DecryptFinal_ex(key, iv, ciphertext, ciphertext_len, tag)
    IN  [ret |-> IF ok THEN SECURE_COMM_SUCCESS
                 ELSE IF fault = "args" THEN SECURE_COMM_ERR_INIT
                 ELSE SECURE_COMM_ERR_DECRYPT,
         plaintext |-> IF updated
                       THEN GcmCrypt(key, iv, ciphertext, ciphertext_len)
                       ELSE <<>>,
         len_written |-> ok,
         plaintext_len |-> IF ok THEN ciphertext_len ELSE 0,
         stderr |-> ~ok]

\* decrypt_data: plaintext holds the bytes EVP_DecryptUpdate wrote into the
\* caller's buffer; plaintext_len is written on success only
decrypt_data(ciphertext, ciphertext_len, key, iv, tag, fault) ==
    LET updated == fault \notin {"args", "ctx", "init", "update"}
        ok == /\ fault = "none"
              /\ 1 = EVP_DecryptFinal_ex(key, iv, ciphertext, ciphertext_len, tag)
    IN  [ret |-> IF ok THEN SECURE_COMM_SUCCESS ELSE SECURE_COMM_ERR_DECRYPT,
         plaintext |-> IF updated
                       THEN GcmCrypt(key, iv, ciphertext, ciphertext_len)
                       ELSE <<>>,
         len_written |-> ok,
         plaintext_len |-> IF ok THEN ciphertext_len ELSE 0,
         stderr |-> ~ok]

(***************************************************************************)
(* One process of a connection (the client, or the server's handler of one *)
(* accepted connection), its three threads, its terminal and its peer      *)
(***************************************************************************)
VARIABLES
    role,           \* "client" (client.c) or "server" (server.c)
    spc,            \* sender_thread_func: where the sender thread is
    rpc,            \* receiver_thread_func: where the receiver thread is
    mpc,            \* client main / server handle_client after thread creation
    console_mutex,  \* owner of console_mutex
    sock,           \* the process's socket descriptor: "open" or "closed"
    in_recv,        \* a recv that began before close(sock) is still waiting
    peer,           \* the peer's end of the connection: "open" or "closed"
    inbox,          \* the byte chunks in flight towards the process, in order
    outbox,         \* the buffers the process passed to send, in order
    stdin,          \* the process's standard input
    typed,          \* lines typed so far
    snd,            \* locals of the sender thread
    rcv,            \* locals of the receiver thread
    console,        \* what the process wrote to its terminal
    logfile,        \* what the process wrote to its log file
    log_file,       \* utils.c log_file: "stdout" or "file"
    current_log_level,
    thread_data,    \* the per-connection data block: "live" or "released"
    calls,          \* how often the threads called what
    peer_frames,    \* frames the peer has sent
    tampers,        \* frames the network has damaged
    faults,         \* library calls that have failed for lack of resources
    ended,          \* why each thread left its loop
    codec,          \* the codec harness (encrypt, then decrypt)
    history,        \* the messages the peer sent, and those decrypted and printed
    server,         \* the server's accept loop and its channels
    key_copy,       \* the bytes of thread_data.session_key, live or released
    session,        \* the session harness (initialize, terminate)
    comp,           \* the compression harness (compress, decompress)
    conn,           \* the connection harness (create_connection)
    locks           \* the threads of the flows at their two locks

vars == <<role, spc, rpc, mpc, console_mutex, sock, in_recv, peer, inbox,
          outbox, stdin, typed, snd, rcv, console, logfile, log_file,
          current_log_level, thread_data, calls, peer_frames, tampers, faults,
          ended, codec,
          history, server, key_copy, session, comp, conn, locks>>

\* the predefined session key of client.c and server.c: bytes 0x00..0x1F
session_key == [i \in 1..KEY_SIZE |-> i - 1]
\* the key of tests/test_encryption.c: "0123456789abcdef0123456789abcdef"
test_key ==
    [i \in 1..KEY_SIZE |->
        LET d == (i - 1) % 16 IN IF d < 10 THEN 48 + d ELSE 87 + d]

\* the nonces RAND_bytes can draw in this model
Nonces == {[i \in 1..IV_SIZE |-> (16 * k + i) % 256] : k \in 1..MaxNonces}

\* a text of n letters 'a'
LongText(n) == [i \in 1..n |-> 97]
\* the lines a user can type, each ended by its newline
InputLines ==
    { <<NL>>,
      HI \o <<NL>>,
      EXIT \o <<NL>>,
      LongText(BUFFER_SIZE - 1) \o <<NL>>,
      LongText(BUFFER_SIZE - 1) \o EXIT \o <<NL>> }

\* a thread's locals are kept while they are in scope and in use: the sender's
\* from encrypt_data to send, the receiver's from recv to the next recv
SndIdle == [message |-> <<>>, msg_len |-> 0, iv |-> <<>>, tag |-> <<>>,
            encrypted_msg |-> <<>>, encrypted_len |-> 0]
RcvIdle == [bytes_received |-> 0, ciphertext_len |-> 0, decrypt_ret |-> 0,
            decrypted_msg |-> <<>>, decrypted_len |-> 0]
NoCalls == [msglines |-> 0, encrypt_data |-> 0, encrypt_ok |-> 0, send |-> 0,
            recv |-> 0, decrypt_data |-> 0, delivered |-> 0]
NoOutput == [written |-> 0, last |-> <<>>]
NotEnded == [sender |-> "", receiver |-> ""]
CodecIdle == [pc |-> "idle"]

\* nothing sent by the peer yet
NoHistory == [sent |-> <<>>, decrypted |-> <<>>, delivered |-> <<>>]

\* the server's accept loop is not part of the run
ServerIdle == [pc |-> "idle"]

\* no session is being set up
SessionIdle == [pc |-> "idle"]

\* nothing is being compressed
CompIdle == [pc |-> "idle"]

\* no connection is being created
ConnIdle == [pc |-> "idle"]

\* the threads at the locks are not part of the run
LocksIdle == [pc |-> "idle"]

\* the configurations of load_configuration the model runs under
Configs == {[log_file |-> "stdout", log_level |-> LOG_LEVEL_INFO],
            [log_file |-> "file", log_level |-> LOG_LEVEL_ERROR]}

\* the state once main (handle_client) has created the two threads
ChanInit ==
    /\ role \in {"client", "server"}
    /\ spc = "lock"
    /\ rpc = "recv"
    /\ mpc = "join_sender"
    /\ console_mutex = "free"
    /\ sock = "open"
    /\ in_recv = FALSE
    /\ peer = "open"
    /\ inbox = <<>>
    /\ outbox = <<>>
    /\ stdin = [lines |-> <<>>, mid |-> FALSE, eof |-> FALSE]
    /\ typed = 0
    /\ snd = SndIdle
    /\ rcv = RcvIdle
    /\ console = NoOutput
    /\ logfile = NoOutput
    /\ \E c \in Configs :
          /\ log_file = c.log_file
          /\ current_log_level = c.log_level
    /\ thread_data = "live"
    /\ calls = NoCalls
    /\ peer_frames = 0
    /\ tampers = 0
    /\ faults = 0
    /\ ended = NotEnded
    /\ key_copy = session_key

Init ==
    /\ ChanInit
    /\ codec = CodecIdle
    /\ history = NoHistory
    /\ server = ServerIdle
    /\ session = SessionIdle
    /\ comp = CompIdle
    /\ conn = ConnIdle
    /\ locks = LocksIdle

(***************************************************************************)
(* utils.c: log_message                                                    *)
(***************************************************************************)
\* a terminal or file after one more entry; the last Window entries are kept
Write(out, entry) ==
    LET all == Append(out.last, entry)
    IN  [written |-> out.written + 1,
         last |-> IF Len(all) > Window
                  THEN SubSeq(all, Len(all) - Window + 1, Len(all)) ELSE all]

\* log_message writes a line unless level > current_log_level
Logged(level) == ~(level > current_log_level)

\* the terminal after log_message(level): log_file is stdout without a log file
ConsoleAfterLog(con, level) ==
    IF Logged(level) /\ log_file = "stdout"
    THEN Write(con, <<"log", <<level>>>>) ELSE con

\* the log file after log_message(level)
FileAfterLog(f, level) ==
    IF Logged(level) /\ log_file = "file"
    THEN Write(f, <<"log", <<level>>>>) ELSE f

\* log_message(level, ...), the terminal being con before it
log_message(con, level) ==
    /\ console' = ConsoleAfterLog(con, level)
    /\ logfile' = FileAfterLog(logfile, level)

(***************************************************************************)
(* C library and socket calls as the threads use them                      *)
(***************************************************************************)
\* strlen: the bytes before the first NUL
strlen(s) ==
    LET zeros == {i \in 1..Len(s) : s[i] = 0}
    IN  IF zeros = {} THEN Len(s)
        ELSE (CHOOSE i \in zeros : \A j \in zeros : i <= j) - 1

\* fgets(message, size, stdin) on a pending line: at most size - 1 bytes,
\* stopping after the newline
fgets(line, size) == SubSeq(line, 1, Min(Len(line), size - 1))

\* the part of the line that fgets has not yet returned
StdinRest(line, size) == SubSeq(line, Len(fgets(line, size)) + 1, Len(line))

\* lines 160-164 of client.c: drop one trailing newline
StripNewline(message) ==
    LET msg_len == strlen(message)
    IN  IF msg_len > 0 /\ message[msg_len] = NL
        THEN SubSeq(message, 1, msg_len - 1)
        ELSE SubSeq(message, 1, msg_len)

\* memcpy(dst + off, src, n)
memcpy(dst, off, src, n) ==
    [i \in 1..Len(dst) |-> IF i > off /\ i <= off + n THEN src[i - off] ELSE dst[i]]

\* an array of n bytes of indeterminate value
Uninitialized(n) == [i \in 1..n |-> -1]

\* a frame built with the tag before the nonce
final_output_TagFirst(iv, tag, encrypted_msg, encrypted_len) ==
    LET buf0 == Uninitialized(IV_SIZE + TAG_SIZE + encrypted_len)
        buf1 == memcpy(buf0, 0, tag, TAG_SIZE)
        buf2 == memcpy(buf1, TAG_SIZE, iv, IV_SIZE)
    IN  memcpy(buf2, IV_SIZE + TAG_SIZE, encrypted_msg, encrypted_len)

\* the frame the sender builds: final_output[IV_SIZE + TAG_SIZE + encrypted_len]
final_output(iv, tag, encrypted_msg, encrypted_len) ==
    LET buf0 == Uninitialized(IV_SIZE + TAG_SIZE + encrypted_len)
        buf1 == memcpy(buf0, 0, iv, IV_SIZE)
        buf2 == memcpy(buf1, IV_SIZE, tag, TAG_SIZE)
    IN  memcpy(buf2, IV_SIZE + TAG_SIZE, encrypted_msg, encrypted_len)

\* the receiver's recv works on the connection: the descriptor is open, or the
\* call began before close(sock) and still holds the connection
OnConnection == sock = "open" \/ in_recv

\* recv blocks while it is on the connection, nothing is in flight and the
\* peer has not closed
RecvReady == ~OnConnection \/ inbox # <<>> \/ peer = "closed"

\* bytes_received of recv(sock, buffer, sizeof(buffer), 0): an error on a
\* descriptor the process itself closed, else up to BUFFER_SIZE bytes of the
\* next chunk, else 0 once the peer has closed
recv ==
    IF ~OnConnection THEN -1
    ELSE IF inbox # <<>> THEN Min(Len(Head(inbox)), BUFFER_SIZE)
    ELSE 0

\* a recv that leaves what it returned in the stream
InboxAfterRecv_Keep(n) == inbox

\* the stream towards the process after recv took n bytes of its first chunk;
\* nothing more is read from a connection whose descriptor is closed
InboxAfterRecv(n) ==
    LET h == Head(inbox)
    IN  IF sock = "closed" THEN <<>>
        ELSE IF n >= Len(h) THEN Tail(inbox)
        ELSE <<SubSeq(h, n + 1, Len(h))>> \o Tail(inbox)

(***************************************************************************)
(* sender_thread_func (client.c 137-199, server.c 196-260)                 *)
(***************************************************************************)
\* pthread_mutex_lock(&console_mutex) at the top of the loop
SenderLock ==
    /\ spc = "lock"
    /\ console_mutex = "free"
    /\ console_mutex' = "sender"
    /\ spc' = "prompt"
    /\ UNCHANGED <<role, rpc, mpc, sock, in_recv, peer, inbox, outbox, stdin,
                   typed, snd, rcv, console, logfile, log_file,
                   current_log_level, thread_data, calls, peer_frames,
                   tampers, faults, ended, codec, history, server,
                   key_copy, session, comp, conn, locks>>

\* a pthread_mutex_unlock that leaves the mutex with its owner
pthread_mutex_unlock_Kept(mutex) == mutex

\* pthread_mutex_unlock(&console_mutex) by the owner
pthread_mutex_unlock(mutex) == "free"

\* print the prompt, flush, unlock
SenderPrompt ==
    /\ spc = "prompt"
    /\ console' = Write(console, <<"prompt", <<>>>>)
    /\ console_mutex' = pthread_mutex_unlock(console_mutex)
    /\ spc' = "fgets"
    /\ UNCHANGED <<role, rpc, mpc, sock, in_recv, peer, inbox, outbox, stdin,
                   typed, snd, rcv, logfile, log_file, current_log_level,
                   thread_data, calls, peer_frames, tampers, faults, ended,
                   codec, history, server,
                   key_copy, session, comp, conn, locks>>

\* fgets returns NULL at end of input: break
SenderEof ==
    /\ spc = "fgets"
    /\ stdin.lines = <<>>
    /\ stdin.eof
    /\ spc' = "done"
    /\ UNCHANGED <<role, rpc, mpc, console_mutex, sock, in_recv, peer, inbox,
                   outbox, stdin, typed, snd, rcv, console, logfile, log_file,
                   current_log_level, thread_data, calls, peer_frames,
                   tampers, faults, codec, history, server,
                   key_copy, session, comp, conn, locks>>
    /\ ended' = [ended EXCEPT !.sender = "eof"]

\* what fgets returns next, and the message after the newline is removed
Got == fgets(Head(stdin.lines), BUFFER_SIZE)
Message == StripNewline(Got)

\* fgets consumes what it returned; a line is complete with its last byte
TakeInput ==
    LET rest == StdinRest(Head(stdin.lines), BUFFER_SIZE)
    IN  stdin' = IF rest = <<>>
                 THEN [stdin EXCEPT !.lines = Tail(@), !.mid = FALSE]
                 ELSE [stdin EXCEPT !.lines = <<rest>> \o Tail(@), !.mid = TRUE]

\* the counters after fgets returned: a line other than the sentinel counts as
\* a message line when its newline is read
CallsAfterFgets ==
    LET done == StdinRest(Head(stdin.lines), BUFFER_SIZE) = <<>>
        sentinel == ~stdin.mid /\ Message = EXIT
    IN  [calls EXCEPT !.msglines = IF done /\ ~sentinel THEN @ + 1 ELSE @]

\* strcmp(message, "exit") == 0: break
SenderExit ==
    /\ spc = "fgets"
    /\ stdin.lines # <<>>
    /\ Message = EXIT
    /\ TakeInput
    /\ spc' = "done"
    /\ calls' = CallsAfterFgets
    /\ UNCHANGED <<role, rpc, mpc, console_mutex, sock, in_recv, peer, inbox,
                   outbox, typed, snd, rcv, console, logfile, log_file,
                   current_log_level, thread_data, peer_frames, tampers,
                   faults, codec, history, server,
                   key_copy, session, comp, conn, locks>>
    /\ ended' = [ended EXCEPT !.sender = "exit"]

\* the sender's locals after encrypt_data(message, ...) returned r with success
SndAfterEncrypt(message, r) ==
    [message |-> message, msg_len |-> Len(message), iv |-> r.iv,
     tag |-> r.tag, encrypted_msg |-> r.ciphertext,
     encrypted_len |-> r.ciphertext_len]

\* a message is read and encrypt_data succeeds: go on to send
SenderEncrypt ==
    /\ spc = "fgets"
    /\ stdin.lines # <<>>
    /\ Message # EXIT
    /\ \E nonce \in Nonces, message \in {Message} :
          \E r \in {encrypt_data(message, Len(message), session_key, nonce,
                                 "none")} :
              /\ r.ret = SECURE_COMM_SUCCESS
              /\ snd' = SndAfterEncrypt(message, r)
    /\ TakeInput
    /\ spc' = "send"
    /\ calls' = [CallsAfterFgets EXCEPT !.encrypt_data = @ + 1,
                                        !.encrypt_ok = @ + 1]
    /\ UNCHANGED <<role, rpc, mpc, console_mutex, sock, in_recv, peer, inbox,
                   outbox, typed, rcv, console, logfile, log_file,
                   current_log_level, thread_data, peer_frames, tampers,
                   faults, ended, codec, history, server,
                   key_copy, session, comp, conn, locks>>

\* a sender that goes on to send after a failed encrypt_data
AfterEncryptFail_NoContinue == "send"
\* where the sender goes when encrypt_data fails: continue
AfterEncryptFail == "lock"

\* a message is read and encrypt_data fails: it reports on stderr, the sender
\* logs and continues
SenderEncryptFail ==
    /\ spc = "fgets"
    /\ stdin.lines # <<>>
    /\ Message # EXIT
    /\ faults < MaxFaults
    /\ \E nonce \in Nonces, fault \in EncryptFaults \ {"none", "args"},
          message \in {Message} :
          \E r \in {encrypt_data(message, Len(message), session_key, nonce,
                                 fault)} :
              r.ret # SECURE_COMM_SUCCESS
    /\ TakeInput
    /\ log_message(Write(console, <<"stderr", <<>>>>), LOG_LEVEL_ERROR)
    /\ spc' = AfterEncryptFail
    /\ calls' = [CallsAfterFgets EXCEPT !.encrypt_data = @ + 1]
    /\ faults' = faults + 1
    /\ UNCHANGED <<role, rpc, mpc, console_mutex, sock, in_recv, peer, inbox,
                   outbox, typed, snd, rcv, log_file, current_log_level,
                   thread_data, peer_frames, tampers, ended, codec,
                   history, server,
                   key_copy, session, comp, conn, locks>>

\* the buffer the sender passes to send
Frame ==
    final_output(snd.iv, snd.tag, snd.encrypted_msg, snd.encrypted_len)

\* send succeeds: the frame is on its way (and lost when the peer has closed)
SenderSend ==
    /\ spc = "send"
    /\ outbox' = Append(outbox, Frame)
    /\ snd' = SndIdle
    /\ spc' = "lock"
    /\ calls' = [calls EXCEPT !.send = @ + 1]
    /\ UNCHANGED <<role, rpc, mpc, console_mutex, sock, in_recv, peer, inbox,
                   stdin, typed, rcv, console, logfile, log_file,
                   current_log_level, thread_data, peer_frames, tampers,
                   faults, ended, codec, history, server,
                   key_copy, session, comp, conn, locks>>

\* the outcomes of send(sock, ..., 0) on a connection the peer has closed:
\* -1 is returned, or SIGPIPE is raised first (no MSG_NOSIGNAL, and the
\* programs leave the signal at its default, which terminates the process)
SendOnClosedPeer == {"error", "sigpipe"}

\* the level a failed send is logged at
SendFailLevel == IF role = "client" THEN LOG_LEVEL_ERROR ELSE LOG_LEVEL_WARN

\* send fails (the peer has closed): log, break
SenderSendFail ==
    /\ spc = "send"
    /\ peer = "closed"
    /\ "error" \in SendOnClosedPeer
    /\ outbox' = Append(outbox, Frame)
    /\ snd' = SndIdle
    /\ log_message(console, SendFailLevel)
    /\ spc' = "done"
    /\ calls' = [calls EXCEPT !.send = @ + 1]
    /\ UNCHANGED <<role, rpc, mpc, console_mutex, sock, in_recv, peer, inbox,
                   stdin, typed, rcv, log_file, current_log_level,
                   thread_data, peer_frames, tampers, faults, codec,
                   history, server,
                   key_copy, session, comp, conn, locks>>
    /\ ended' = [ended EXCEPT !.sender = "send"]

\* a thread after the process was terminated by a signal: one that had left
\* its loop stays as it was
Killed(pc) == IF pc = "done" THEN pc ELSE "killed"

\* send raises SIGPIPE: the process, with every thread of it, is terminated
\* and its descriptors are closed
SenderSendSigpipe ==
    /\ spc = "send"
    /\ peer = "closed"
    /\ "sigpipe" \in SendOnClosedPeer
    /\ outbox' = Append(outbox, Frame)
    /\ snd' = SndIdle
    /\ spc' = "killed"
    /\ rpc' = Killed(rpc)
    /\ mpc' = "killed"
    /\ console_mutex' = "free"
    /\ sock' = "closed"
    /\ in_recv' = FALSE
    /\ inbox' = <<>>
    /\ calls' = [calls EXCEPT !.send = @ + 1]
    /\ ended' = [ended EXCEPT !.sender = "sigpipe"]
    /\ UNCHANGED <<role, peer, stdin, typed, rcv, console, logfile, log_file,
                   current_log_level, thread_data, peer_frames, tampers,
                   faults, codec, history, server,
                   key_copy, session, comp, conn, locks>>

(***************************************************************************)
(* receiver_thread_func (client.c 204-264, server.c 265-329)               *)
(***************************************************************************)
\* a receiver that reads again after recv returned 0 or less
AfterRecvEnd_NoBreak == "recv"
\* where the receiver goes when recv returns 0 or less: break
AfterRecvEnd == "done"
\* a receiver that gives up on the first frame it discards
AfterBadFrame_Break == "done"
\* where the receiver goes after a frame it discards: continue
AfterBadFrame == "recv"

\* the levels the end of the stream and a failed recv are logged at
PeerClosedLevel == IF role = "client" THEN LOG_LEVEL_WARN ELSE LOG_LEVEL_INFO
RecvFailLevel == IF role = "client" THEN LOG_LEVEL_ERROR ELSE LOG_LEVEL_WARN

\* recv returns 0 or less: log, break
ReceiverClosed ==
    /\ rpc = "recv"
    /\ RecvReady
    /\ recv <= 0
    /\ rcv' = [RcvIdle EXCEPT !.bytes_received = recv]
    /\ log_message(console, IF recv = 0 THEN PeerClosedLevel ELSE RecvFailLevel)
    /\ in_recv' = FALSE
    /\ rpc' = AfterRecvEnd
    /\ calls' = [calls EXCEPT !.recv = @ + 1]
    /\ ended' = [ended EXCEPT !.receiver = IF recv = 0 THEN "closed" ELSE "error"]
    /\ UNCHANGED <<role, spc, mpc, console_mutex, sock, peer, inbox, outbox,
                   stdin, typed, snd, log_file, current_log_level,
                   thread_data, peer_frames, tampers, faults, codec,
                   history, server,
                   key_copy, session, comp, conn, locks>>

\* if (bytes_received < IV_SIZE + TAG_SIZE)
TooShort_Inclusive(bytes_received) == bytes_received <= IV_SIZE + TAG_SIZE

TooShort(bytes_received) == bytes_received < IV_SIZE + TAG_SIZE

\* a ciphertext length that leaves the tag in
CiphertextLen_TagCounted(bytes_received) == bytes_received - IV_SIZE

\* ciphertext_len = bytes_received - IV_SIZE - TAG_SIZE
CiphertextLen(bytes_received) == bytes_received - IV_SIZE - TAG_SIZE

\* recv returns fewer bytes than an IV and a tag: log, continue
ReceiverShort ==
    /\ rpc = "recv"
    /\ RecvReady
    /\ recv > 0
    /\ TooShort(recv)
    /\ inbox' = InboxAfterRecv(recv)
    /\ rcv' = [RcvIdle EXCEPT !.bytes_received = recv]
    /\ log_message(console, LOG_LEVEL_ERROR)
    /\ in_recv' = FALSE
    /\ rpc' = AfterBadFrame
    /\ calls' = [calls EXCEPT !.recv = @ + 1]
    /\ UNCHANGED <<role, spc, mpc, console_mutex, sock, peer, outbox, stdin,
                   typed, snd, log_file, current_log_level, thread_data,
                   peer_frames, tampers, faults, ended, codec,
                   history, server,
                   key_copy, session, comp, conn, locks>>

\* the n bytes recv put into buffer
Buffer(n) == SubSeq(Head(inbox), 1, n)

\* decrypt_data on the n bytes of buffer: iv, tag, then the ciphertext
DecryptFrame(buffer, n, fault) ==
    LET iv == SubSeq(buffer, 1, IV_SIZE)
        tag == SubSeq(buffer, IV_SIZE + 1, IV_SIZE + TAG_SIZE)
        ciphertext == SubSeq(buffer, IV_SIZE + TAG_SIZE + 1, n)
        ciphertext_len == CiphertextLen(n)
    IN  decrypt_data(ciphertext, ciphertext_len, session_key, iv, tag, fault)

\* decrypt_data fails: it reports on stderr, the receiver logs and continues
ReceiverDecryptFail ==
    /\ rpc = "recv"
    /\ RecvReady
    /\ ~TooShort(recv)
    /\ \E fault \in DecryptFaults \ {"args"}, buffer \in {Buffer(recv)} :
          \E r \in {DecryptFrame(buffer, recv, fault)} :
              /\ fault # "none" => faults < MaxFaults
              /\ r.ret # SECURE_COMM_SUCCESS
              /\ faults' = IF fault # "none" THEN faults + 1 ELSE faults
              /\ rcv' = [RcvIdle EXCEPT !.bytes_received = recv,
                                        !.ciphertext_len = CiphertextLen(recv),
                                        !.decrypt_ret = r.ret]
    /\ inbox' = InboxAfterRecv(recv)
    /\ log_message(Write(console, <<"stderr", <<>>>>), LOG_LEVEL_ERROR)
    /\ in_recv' = FALSE
    /\ rpc' = AfterBadFrame
    /\ calls' = [calls EXCEPT !.recv = @ + 1, !.decrypt_data = @ + 1]
    /\ UNCHANGED <<role, spc, mpc, console_mutex, sock, peer, outbox, stdin,
                   typed, snd, log_file, current_log_level, thread_data,
                   peer_frames, tampers, ended, codec, history, server,
                   key_copy, session, comp, conn, locks>>

\* the receiver's locals after recv returned n bytes and decrypt_data returned
\* r with success; decrypted_msg[decrypted_len] = '\0'
RcvAfterDecrypt(n, r) ==
    [bytes_received |-> n,
     ciphertext_len |-> CiphertextLen(n),
     decrypt_ret |-> r.ret,
     decrypted_msg |-> SubSeq(r.plaintext, 1, r.plaintext_len) \o <<0>>,
     decrypted_len |-> r.plaintext_len]

\* decrypt_data succeeds: go on to print
ReceiverDecrypt ==
    /\ rpc = "recv"
    /\ RecvReady
    /\ ~TooShort(recv)
    /\ \E buffer \in {Buffer(recv)} :
          \E r \in {DecryptFrame(buffer, recv, "none")} :
              /\ r.ret = SECURE_COMM_SUCCESS
              /\ rcv' = RcvAfterDecrypt(recv, r)
              /\ history' = [history EXCEPT !.decrypted =
                                Append(@, SubSeq(r.plaintext, 1, r.plaintext_len))]
    /\ inbox' = InboxAfterRecv(recv)
    /\ in_recv' = FALSE
    /\ rpc' = "lock"
    /\ calls' = [calls EXCEPT !.recv = @ + 1, !.decrypt_data = @ + 1]
    /\ UNCHANGED <<role, spc, mpc, console_mutex, sock, peer, outbox, stdin,
                   typed, snd, console, logfile, log_file, current_log_level,
                   thread_data, peer_frames, tampers, faults, ended, codec,
                   server,
                   key_copy, session, comp, conn, locks>>

\* what printf("%s", decrypted_msg) prints: the bytes before the first NUL
Printed(decrypted_msg) == SubSeq(decrypted_msg, 1, strlen(decrypted_msg))

\* lock the console and print the peer's message
ReceiverDeliver ==
    /\ rpc = "lock"
    /\ console_mutex = "free"
    /\ console_mutex' = "receiver"
    /\ console' = Write(console, <<"message", Printed(rcv.decrypted_msg)>>)
    /\ rpc' = "reprompt"
    /\ calls' = [calls EXCEPT !.delivered = @ + 1]
    /\ history' = [history EXCEPT !.delivered =
                      Append(@, Printed(rcv.decrypted_msg))]
    /\ UNCHANGED <<role, spc, mpc, sock, in_recv, peer, inbox, outbox, stdin,
                   typed, snd, rcv, logfile, log_file, current_log_level,
                   thread_data, peer_frames, tampers, faults, ended, codec,
                   server,
                   key_copy, session, comp, conn, locks>>

\* print the prompt again, flush, unlock
ReceiverReprompt ==
    /\ rpc = "reprompt"
    /\ console' = Write(console, <<"prompt", <<>>>>)
    /\ console_mutex' = pthread_mutex_unlock(console_mutex)
    /\ rcv' = RcvIdle
    /\ rpc' = "recv"
    /\ UNCHANGED <<role, spc, mpc, sock, in_recv, peer, inbox, outbox, stdin,
                   typed, snd, logfile, log_file, current_log_level,
                   thread_data, calls, peer_frames, tampers, faults, ended,
                   codec, history, server,
                   key_copy, session, comp, conn, locks>>

(***************************************************************************)
(* client main (client.c 120-131) and server handle_client (178-190)       *)
(***************************************************************************)
\* pthread_join(sender_thread, NULL) returns
MainJoinSender ==
    /\ mpc = "join_sender"
    /\ spc = "done"
    /\ mpc' = "close"
    /\ UNCHANGED <<role, spc, rpc, console_mutex, sock, in_recv, peer, inbox,
                   outbox, stdin, typed, snd, rcv, console, logfile, log_file,
                   current_log_level, thread_data, calls, peer_frames,
                   tampers, faults, ended, codec, history, server,
                   key_copy, session, comp, conn, locks>>

\* the descriptor after close(sock)
SockAfterClose == "closed"

\* what close(sock) can do to the receiver when it is in recv, or about to
\* call it, with nothing to return: the call fails on the closed descriptor
\* (FALSE), or it began first and keeps waiting on the connection (TRUE).
\* close does not wake a recv that another thread is blocked in.
RecvAcrossClose ==
    IF rpc = "recv" /\ ~RecvReady THEN {FALSE, TRUE} ELSE {FALSE}

\* close(sock): main closes the descriptor the receiver thread is using
MainClose ==
    /\ mpc = "close"
    /\ sock' = SockAfterClose
    /\ \E waiting \in RecvAcrossClose :
          /\ in_recv' = waiting
          /\ inbox' = IF waiting THEN inbox ELSE <<>>
    /\ mpc' = "join_receiver"
    /\ UNCHANGED <<role, spc, rpc, console_mutex, peer, outbox, stdin, typed,
                   snd, rcv, console, logfile, log_file, current_log_level,
                   thread_data, calls, peer_frames, tampers, faults, ended,
                   codec, history, server,
                   key_copy, session, comp, conn, locks>>

\* pthread_join(receiver_thread, NULL) returns; the server frees the
\* connection's data, the client's main returns
MainJoinReceiver ==
    /\ mpc = "join_receiver"
    /\ rpc = "done"
    /\ thread_data' = "released"
    /\ mpc' = "done"
    /\ UNCHANGED <<role, spc, rpc, console_mutex, sock, in_recv, peer, inbox,
                   outbox, stdin, typed, snd, rcv, console, logfile, log_file,
                   current_log_level, calls, peer_frames, tampers, faults,
                   ended, codec, history, server,
                   key_copy, session, comp, conn, locks>>

(***************************************************************************)
(* The user, the peer and the network                                      *)
(***************************************************************************)
\* the user types a line while the sender waits in fgets
UserInput ==
    /\ spc = "fgets"
    /\ stdin.lines = <<>>
    /\ ~stdin.eof
    /\ typed < MaxLines
    /\ \E line \in InputLines : stdin' = [stdin EXCEPT !.lines = <<line>>]
    /\ typed' = typed + 1
    /\ UNCHANGED <<role, spc, rpc, mpc, console_mutex, sock, in_recv, peer,
                   inbox, outbox, snd, rcv, console, logfile, log_file,
                   current_log_level, thread_data, calls, peer_frames,
                   tampers, faults, ended, codec, history, server,
                   key_copy, session, comp, conn, locks>>

\* the user ends the input while the sender waits in fgets
UserEof ==
    /\ spc = "fgets"
    /\ stdin.lines = <<>>
    /\ ~stdin.eof
    /\ stdin' = [stdin EXCEPT !.eof = TRUE]
    /\ UNCHANGED <<role, spc, rpc, mpc, console_mutex, sock, in_recv, peer,
                   inbox, outbox, typed, snd, rcv, console, logfile, log_file,
                   current_log_level, thread_data, calls, peer_frames,
                   tampers, faults, ended, codec, history, server,
                   key_copy, session, comp, conn, locks>>

\* the messages the peer sends
PeerMessages == {<<>>, HI, LongText(BUFFER_SIZE - 1)}

\* the peer runs the same sender: it encrypts one of the messages with the
\* session key and sends the frame, at most max frames in all
PeerSendOf(messages, max) ==
    /\ peer = "open"
    /\ OnConnection
    /\ peer_frames < max
    /\ \E m \in messages, nonce \in Nonces :
          \E r \in {encrypt_data(m, Len(m), session_key, nonce, "none")} :
              /\ inbox' = Append(inbox,
                     final_output(r.iv, r.tag, r.ciphertext, r.ciphertext_len))
              /\ history' = [history EXCEPT !.sent = Append(@, m)]
    /\ peer_frames' = peer_frames + 1
    /\ UNCHANGED <<role, spc, rpc, mpc, console_mutex, sock, in_recv, peer,
                   outbox, stdin, typed, snd, rcv, console, logfile, log_file,
                   current_log_level, thread_data, calls, tampers, faults,
                   ended, codec, server,
                   key_copy, session, comp, conn, locks>>

PeerSendWithin(max) == PeerSendOf(PeerMessages, max)

PeerSend == PeerSendWithin(MaxPeerFrames)

\* the peer closes its end of the connection
PeerClose ==
    /\ peer = "open"
    /\ peer' = "closed"
    /\ UNCHANGED <<role, spc, rpc, mpc, console_mutex, sock, in_recv, inbox,
                   outbox, stdin, typed, snd, rcv, console, logfile, log_file,
                   current_log_level, thread_data, calls, peer_frames,
                   tampers, faults, ended, codec, history, server,
                   key_copy, session, comp, conn, locks>>

\* what can happen to a frame on its way
Damage == {"tag", "ciphertext", "truncate"}

\* byte b with its lowest bit flipped
FlipBit(b) == IF b % 2 = 0 THEN b + 1 ELSE b - 1

\* frame after the damage
Damaged(frame, kind) ==
    CASE kind = "tag" -> [frame EXCEPT ![IV_SIZE + TAG_SIZE] = FlipBit(@)]
      [] kind = "ciphertext" -> [frame EXCEPT ![Len(frame)] = FlipBit(@)]
      [] kind = "truncate" -> SubSeq(frame, 1, IV_SIZE + TAG_SIZE - 1)

\* the network damages a whole frame in flight towards the process
NetTamper ==
    /\ tampers < MaxTamper
    /\ \E i \in 1..Len(inbox), kind \in Damage :
          /\ Len(inbox[i]) >= IV_SIZE + TAG_SIZE
          /\ kind = "ciphertext" => Len(inbox[i]) > IV_SIZE + TAG_SIZE
          /\ inbox' = [inbox EXCEPT ![i] = Damaged(@, kind)]
    /\ tampers' = tampers + 1
    /\ UNCHANGED <<role, spc, rpc, mpc, console_mutex, sock, in_recv, peer,
                   outbox, stdin, typed, snd, rcv, console, logfile, log_file,
                   current_log_level, thread_data, calls, peer_frames, faults,
                   ended, codec, history, server,
                   key_copy, session, comp, conn, locks>>

(***************************************************************************)
(* The channel                                                             *)
(***************************************************************************)
SenderStep ==
    \/ SenderLock
    \/ SenderPrompt
    \/ SenderEof
    \/ SenderExit
    \/ SenderEncrypt
    \/ SenderEncryptFail
    \/ SenderSend
    \/ SenderSendFail
    \/ SenderSendSigpipe

ReceiverStep ==
    \/ ReceiverClosed
    \/ ReceiverShort
    \/ ReceiverDecryptFail
    \/ ReceiverDecrypt
    \/ ReceiverDeliver
    \/ ReceiverReprompt

MainStep ==
    \/ MainJoinSender
    \/ MainClose
    \/ MainJoinReceiver

Environment ==
    \/ UserInput
    \/ UserEof
    \/ PeerSend
    \/ PeerClose
    \/ NetTamper

Next == SenderStep \/ ReceiverStep \/ MainStep \/ Environment

Spec == Init /\ [][Next]_vars

\* every thread that can run does run; the user, the peer and the network
\* owe nothing
FairSpec ==
    /\ Spec
    /\ WF_vars(SenderStep)
    /\ WF_vars(ReceiverStep)
    /\ WF_vars(MainStep)

(***************************************************************************)
(* The codec on its own: encrypt_data, the frame's way, decrypt_data       *)
(* (tests/test_encryption.c encrypts, decrypts and compares)               *)
(***************************************************************************)
\* the bytes plaintexts are made of
PlainBytes == {0, 104, 255}

RECURSIVE SeqsUpTo(_, _)
\* the sequences over S of length at most n
SeqsUpTo(S, n) ==
    IF n = 0 THEN {<<>>}
    ELSE LET shorter == SeqsUpTo(S, n - 1)
         IN  shorter \cup {Append(q, x) : q \in shorter, x \in S}

Plaintexts == SeqsUpTo(PlainBytes, MaxPlainLen)
Keys == {session_key, test_key}

\* the harness before encrypt_data is called on plaintext under key
CodecStart(plaintext, key) ==
    [pc |-> "start", plaintext |-> plaintext, key |-> key, dkey |-> key,
     iv |-> <<>>, tag |-> <<>>, ciphertext |-> <<>>, ciphertext_len |-> 0,
     changed |-> "no", fault |-> "none", decrypt_ret |-> 0,
     decrypted |-> <<>>,
     len_written |-> FALSE, decrypted_len |-> 0]

CodecInit ==
    /\ ChanInit
    /\ role = "client"
    /\ log_file = "stdout"
    /\ \E plaintext \in Plaintexts, key \in Keys :
          codec = CodecStart(plaintext, key)
    /\ history = NoHistory
    /\ server = ServerIdle
    /\ session = SessionIdle
    /\ comp = CompIdle
    /\ conn = ConnIdle
    /\ locks = LocksIdle

chan == <<role, spc, rpc, mpc, console_mutex, sock, in_recv, peer, inbox,
          outbox, stdin, typed, snd, rcv, console, logfile, log_file,
          current_log_level, thread_data, calls, peer_frames, tampers, faults,
          ended, history, server,
          key_copy, session, comp, conn, locks>>

\* encrypt_data(plaintext, len, key, iv, ciphertext, &ciphertext_len, tag)
CodecEncrypt ==
    /\ codec.pc = "start"
    /\ \E nonce \in Nonces :
          \E r \in {encrypt_data(codec.plaintext, Len(codec.plaintext),
                                 codec.key, nonce, "none")} :
              /\ r.ret = SECURE_COMM_SUCCESS
              /\ codec' = [codec EXCEPT !.pc = "encrypted",
                                        !.iv = r.iv,
                                        !.tag = r.tag,
                                        !.ciphertext = r.ciphertext,
                                        !.ciphertext_len = r.ciphertext_len]
    /\ UNCHANGED chan

\* byte b with bit k flipped
FlipBitAt(b, k) == ByteXor[b][2 ^ k]

\* one bit of the tag changes on the way
CodecTamperTag ==
    /\ codec.pc = "encrypted"
    /\ \E i \in 1..TAG_SIZE, k \in 0..7 :
          codec' = [codec EXCEPT !.pc = "changed", !.changed = "tag",
                                 !.tag[i] = FlipBitAt(@, k)]
    /\ UNCHANGED chan

\* one bit of the ciphertext changes on the way
CodecTamperCiphertext ==
    /\ codec.pc = "encrypted"
    /\ \E i \in 1..codec.ciphertext_len, k \in 0..7 :
          codec' = [codec EXCEPT !.pc = "changed", !.changed = "ciphertext",
                                 !.ciphertext[i] = FlipBitAt(@, k)]
    /\ UNCHANGED chan

\* the receiving side holds another key
CodecOtherKey ==
    /\ codec.pc = "encrypted"
    /\ \E key \in Keys \ {codec.key} :
          codec' = [codec EXCEPT !.pc = "changed", !.changed = "key",
                                 !.dkey = key]
    /\ UNCHANGED chan

\* decrypt_data(ciphertext, len, key, iv, plaintext, &plaintext_len, tag)
CodecDecrypt ==
    /\ codec.pc \in {"encrypted", "changed"}
    /\ \E r \in {decrypt_data(codec.ciphertext, codec.ciphertext_len,
                             codec.dkey, codec.iv, codec.tag, "none")} :
          codec' = [codec EXCEPT !.pc = "decrypted",
                                 !.decrypt_ret = r.ret,
                                 !.decrypted = r.plaintext,
                                 !.len_written = r.len_written,
                                 !.decrypted_len = r.plaintext_len]
    /\ UNCHANGED chan

\* decrypt_data called with a NULL argument, or with a step of the cipher
\* setup failing
CodecDecryptFault ==
    /\ codec.pc \in {"encrypted", "changed"}
    /\ \E fault \in DecryptFaults \ {"none"} :
          \E r \in {decrypt_data(codec.ciphertext, codec.ciphertext_len,
                                 codec.dkey, codec.iv, codec.tag, fault)} :
              codec' = [codec EXCEPT !.pc = "failed",
                                     !.fault = fault,
                                     !.decrypt_ret = r.ret,
                                     !.decrypted = r.plaintext,
                                     !.len_written = r.len_written,
                                     !.decrypted_len = r.plaintext_len]
    /\ UNCHANGED chan

CodecNext ==
    \/ CodecEncrypt
    \/ CodecTamperTag
    \/ CodecTamperCiphertext
    \/ CodecOtherKey
    \/ CodecDecrypt
    \/ CodecDecryptFault

CodecSpec == CodecInit /\ [][CodecNext]_vars

(***************************************************************************)
(* The inbound flow of a channel on its own: the peer sends several frames *)
(* while the user types nothing                                            *)
(***************************************************************************)
PeerSendMore == PeerSendWithin(MaxInboundFrames)

InboundNext ==
    \/ SenderLock
    \/ SenderPrompt
    \/ ReceiverStep
    \/ PeerSendMore
    \/ PeerClose
    \/ NetTamper

InboundSpec == Init /\ [][InboundNext]_vars

(***************************************************************************)
(* The server process: main's accept loop (server.c 95-142) and the        *)
(* channels it starts, each a handle_client thread (153-191) with its      *)
(* sender (196-260) and receiver (265-329); the threads of all channels    *)
(* share console_mutex, the terminal and standard input.  What a frame     *)
(* holds is left to the one-channel specification above: here a frame is    *)
(* "good" (it decrypts) or "bad" (too short, or it fails to decrypt).       *)
(***************************************************************************)
Conns == 1..MaxClients

\* the variables of the one-channel, codec and inbound specifications
process == <<role, spc, rpc, mpc, console_mutex, sock, in_recv, peer, inbox,
             outbox, stdin, typed, snd, rcv, console, logfile, log_file,
             current_log_level, thread_data, calls, peer_frames, tampers,
             faults, ended, codec, history,
             key_copy, session, comp, conn, locks>>

NoFailures ==
    [accept |-> 0, malloc |-> 0, handler |-> 0, sender |-> 0, receiver |-> 0,
     encrypt |-> 0]

\* the server after listen(server_sock, 5) returned
ServerStart ==
    [pc |-> "accept",                            \* main: where in the loop
     client_sock |-> 0,                          \* main: the accepted connection
     connected |-> 0,                            \* connections clients made
     accepted |-> 0,                             \* connections accept returned
     sock |-> [c \in Conns |-> "none"],          \* descriptor of connection c
     closes |-> [c \in Conns |-> 0],             \* close(client_sock) calls
     thread_data |-> [c \in Conns |-> "none"],   \* malloc'ed block of c
     handler |-> [c \in Conns |-> "none"],       \* handle_client of c
     sender |-> [c \in Conns |-> "none"],        \* sender_thread_func of c
     receiver |-> [c \in Conns |-> "none"],      \* receiver_thread_func of c
     held |-> [c \in Conns |-> FALSE],           \* recv of c outlives close
     console_mutex |-> <<>>,                     \* owner <<c, thread>>
     console |-> <<>>,                           \* last write to the terminal
     fd |-> [c \in Conns |-> 0],                 \* descriptor number of c
     stdin |-> <<>>,                             \* lines typed, not yet read
     eof |-> FALSE,
     typed |-> 0,
     reader |-> 0,           \* who read the part before the head of stdin
     quit |-> [c \in Conns |-> FALSE],           \* sender of c read "exit"
     peer |-> [c \in Conns |-> "none"],          \* the client's end
     inbox |-> [c \in Conns |-> <<>>],           \* frames in flight to c
     frames |-> 0,                               \* frames clients sent
     failures |-> NoFailures]

ServerInit ==
    /\ ChanInit
    /\ role = "server"
    /\ codec = CodecIdle
    /\ history = NoHistory
    /\ server = ServerStart
    /\ session = SessionIdle
    /\ comp = CompIdle
    /\ conn = ConnIdle
    /\ locks = LocksIdle

\* failures of library calls so far
Failures ==
    server.failures.accept + server.failures.malloc + server.failures.handler
        + server.failures.sender + server.failures.receiver
        + server.failures.encrypt

\* the process runs: no thread has brought it down
Alive == server.pc # "crashed"

\* the terminal after log_message(level, ...)
ServerLog(level) ==
    IF Logged(level) /\ log_file = "stdout" THEN <<"log", level>>
    ELSE server.console

\* the lines the user at the server's terminal can type, each ended by its
\* newline
ServerLines ==
    { HI \o <<NL>>, EXIT \o <<NL>>, LongText(BUFFER_SIZE - 1) \o <<NL>> }

\* the descriptor numbers in use: those of the connections not yet closed
OpenDescriptors ==
    {server.fd[c] : c \in {d \in Conns : server.sock[d] = "open"}}

\* accept returns the lowest descriptor number that is not in use
LowestFree ==
    CHOOSE n \in Conns :
        /\ n \notin OpenDescriptors
        /\ \A m \in 1..(n - 1) : m \in OpenDescriptors

\* the connection descriptor number n refers to, 0 when n is not open
ConnectionOf(n) ==
    IF \E d \in Conns : server.sock[d] = "open" /\ server.fd[d] = n
    THEN CHOOSE d \in Conns : server.sock[d] = "open" /\ server.fd[d] = n
    ELSE 0

\* the connection a call of a thread of c on its client_sock works on: a recv
\* that began before close(client_sock) stays on its connection, any other
\* call reaches whatever the descriptor number refers to when it is made
ServerSource(c) == IF server.held[c] THEN c ELSE ConnectionOf(server.fd[c])

\* what the next fgets(message, sizeof(message), stdin) returns, and the
\* message after the newline is removed
ServerGot == fgets(Head(server.stdin), BUFFER_SIZE)
ServerMessage == StripNewline(ServerGot)

\* the server after the sender of c returned from fgets: the bytes returned
\* are consumed, the rest of an over-long line stays at the head
AfterFgets(c) ==
    LET rest == StdinRest(Head(server.stdin), BUFFER_SIZE)
    IN  [server EXCEPT
            !.stdin = IF rest = <<>> THEN Tail(@) ELSE <<rest>> \o Tail(@),
            !.reader = IF rest = <<>> THEN 0 ELSE c]

(***************************************************************************)
(* main: the accept loop                                                   *)
(***************************************************************************)
\* where main goes after an iteration, failed or not: continue
AfterIteration_Join == "join"

AfterIteration == "accept"

\* accept returns a negative value: log, continue
ServerAcceptFail ==
    /\ server.pc = "accept"
    /\ Failures < MaxServerFaults
    /\ server' = [server EXCEPT !.pc = AfterIteration,
                                !.console = ServerLog(LOG_LEVEL_WARN),
                                !.failures.accept = @ + 1]
    /\ UNCHANGED process

\* an accept that returns only while no channel runs
AcceptReady_NoChannel ==
    /\ server.accepted < server.connected
    /\ \A c \in Conns : server.handler[c] \in {"none", "exited"}

\* accept returns as soon as a connection waits
AcceptReady == server.accepted < server.connected

\* accept returns the next waiting connection
ServerAccept ==
    /\ server.pc = "accept"
    /\ AcceptReady
    /\ \E c \in {server.accepted + 1} :
          server' = [server EXCEPT !.pc = "malloc",
                                   !.client_sock = c,
                                   !.accepted = c,
                                   !.sock[c] = "open",
                                   !.fd[c] = LowestFree,
                                   !.console = ServerLog(LOG_LEVEL_INFO)]
    /\ UNCHANGED process

\* malloc returns NULL: log, close(client_sock), continue
ServerMallocFail ==
    /\ server.pc = "malloc"
    /\ Failures < MaxServerFaults
    /\ \E c \in {server.client_sock} :
          server' = [server EXCEPT !.pc = AfterIteration,
                                   !.client_sock = 0,
                                   !.sock[c] = "closed",
                                   !.closes[c] = @ + 1,
                                   !.console = ServerLog(LOG_LEVEL_ERROR),
                                   !.failures.malloc = @ + 1]
    /\ UNCHANGED process

\* thread_data is allocated and filled in
ServerMalloc ==
    /\ server.pc = "malloc"
    /\ server' = [server EXCEPT !.pc = "create",
                                !.thread_data[server.client_sock] = "allocated"]
    /\ UNCHANGED process

\* pthread_create(handle_client) fails: log, close(client_sock),
\* free(thread_data), continue
ServerCreateFail ==
    /\ server.pc = "create"
    /\ Failures < MaxServerFaults
    /\ \E c \in {server.client_sock} :
          server' = [server EXCEPT !.pc = AfterIteration,
                                   !.client_sock = 0,
                                   !.sock[c] = "closed",
                                   !.closes[c] = @ + 1,
                                   !.thread_data[c] = "freed",
                                   !.console = ServerLog(LOG_LEVEL_ERROR),
                                   !.failures.handler = @ + 1]
    /\ UNCHANGED process

\* pthread_create(handle_client) succeeds; pthread_detach; next iteration
ServerCreate ==
    /\ server.pc = "create"
    /\ \E c \in {server.client_sock} :
          server' = [server EXCEPT !.pc = AfterIteration,
                                   !.client_sock = 0,
                                   !.handler[c] = "start"]
    /\ UNCHANGED process

(***************************************************************************)
(* handle_client of connection c                                           *)
(***************************************************************************)
\* pthread_create(sender_thread_func) succeeds
HandlerCreateSender(c) ==
    /\ Alive
    /\ server.handler[c] = "start"
    /\ server' = [server EXCEPT !.handler[c] = "create_receiver",
                                !.sender[c] = "lock"]
    /\ UNCHANGED process

\* pthread_create(sender_thread_func) fails: log, close, free, pthread_exit
HandlerCreateSenderFail(c) ==
    /\ Alive
    /\ server.handler[c] = "start"
    /\ Failures < MaxServerFaults
    /\ server' = [server EXCEPT !.handler[c] = "exited",
                                !.sock[c] = "closed",
                                !.closes[c] = @ + 1,
                                !.thread_data[c] = "freed",
                                !.console = ServerLog(LOG_LEVEL_ERROR),
                                !.failures.sender = @ + 1]
    /\ UNCHANGED process

\* pthread_create(receiver_thread_func) succeeds
HandlerCreateReceiver(c) ==
    /\ Alive
    /\ server.handler[c] = "create_receiver"
    /\ server' = [server EXCEPT !.handler[c] = "join_sender",
                                !.receiver[c] = "recv"]
    /\ UNCHANGED process

\* pthread_create(receiver_thread_func) fails: log, close, free, pthread_exit;
\* the sender thread runs on
HandlerCreateReceiverFail(c) ==
    /\ Alive
    /\ server.handler[c] = "create_receiver"
    /\ Failures < MaxServerFaults
    /\ server' = [server EXCEPT !.handler[c] = "exited",
                                !.sock[c] = "closed",
                                !.closes[c] = @ + 1,
                                !.thread_data[c] = "freed",
                                !.console = ServerLog(LOG_LEVEL_ERROR),
                                !.failures.receiver = @ + 1]
    /\ UNCHANGED process

\* pthread_join(sender_thread) returns
HandlerJoinSender(c) ==
    /\ Alive
    /\ server.handler[c] = "join_sender"
    /\ server.sender[c] = "done"
    /\ server' = [server EXCEPT !.handler[c] = "close"]
    /\ UNCHANGED process

\* close(client_sock); a recv of the receiver that is waiting fails at once or
\* waits on
HandlerClose(c) ==
    /\ Alive
    /\ server.handler[c] = "close"
    /\ \E h \in IF server.receiver[c] = "recv" THEN BOOLEAN ELSE {FALSE} :
          server' = [server EXCEPT !.handler[c] = "join_receiver",
                                   !.sock[c] = "closed",
                                   !.closes[c] = @ + 1,
                                   !.held[c] = h]
    /\ UNCHANGED process

\* pthread_join(receiver_thread) returns; free(data); pthread_exit
HandlerJoinReceiver(c) ==
    /\ Alive
    /\ server.handler[c] = "join_receiver"
    /\ server.receiver[c] = "done"
    /\ server' = [server EXCEPT !.handler[c] = "exited",
                                !.thread_data[c] = "freed"]
    /\ UNCHANGED process

(***************************************************************************)
(* sender_thread_func of connection c                                      *)
(***************************************************************************)
\* a sender that prints its prompt without pthread_mutex_lock
MutexAfterLock_NotTaken(mutex, owner) == mutex

\* console_mutex after owner's pthread_mutex_lock returned
MutexAfterLock(mutex, owner) == owner

\* pthread_mutex_lock(&console_mutex)
ServerSenderLock(c) ==
    /\ Alive
    /\ server.sender[c] = "lock"
    /\ server.console_mutex = <<>>
    /\ server' = [server EXCEPT
                     !.sender[c] = "prompt",
                     !.console_mutex = MutexAfterLock(@, <<c, "sender">>)]
    /\ UNCHANGED process

\* print the prompt, flush, unlock
ServerSenderPrompt(c) ==
    /\ Alive
    /\ server.sender[c] = "prompt"
    /\ server' = [server EXCEPT
                     !.sender[c] = "fgets",
                     !.console = <<"prompt", c>>,
                     !.console_mutex =
                         IF @ = <<c, "sender">> THEN <<>> ELSE @]
    /\ UNCHANGED process

\* the prompt is printed from data->client_addr after handle_client freed
\* data: the read of freed memory can bring the process down
ServerSenderUseAfterFree(c) ==
    /\ Alive
    /\ server.sender[c] = "prompt"
    /\ server.thread_data[c] = "freed"
    /\ server' = [server EXCEPT !.pc = "crashed"]
    /\ UNCHANGED process

\* fgets returns NULL at end of input: break
ServerSenderEof(c) ==
    /\ Alive
    /\ server.sender[c] = "fgets"
    /\ server.stdin = <<>>
    /\ server.eof
    /\ server' = [server EXCEPT !.sender[c] = "done"]
    /\ UNCHANGED process

\* fgets returns "exit": break
ServerSenderExit(c) ==
    /\ Alive
    /\ server.sender[c] = "fgets"
    /\ server.stdin # <<>>
    /\ ServerMessage = EXIT
    /\ server' = [AfterFgets(c) EXCEPT !.sender[c] = "done",
                                       !.quit[c] = TRUE]
    /\ UNCHANGED process

\* fgets returns a message and encrypt_data succeeds
ServerSenderEncrypt(c) ==
    /\ Alive
    /\ server.sender[c] = "fgets"
    /\ server.stdin # <<>>
    /\ ServerMessage # EXIT
    /\ server' = [AfterFgets(c) EXCEPT !.sender[c] = "send"]
    /\ UNCHANGED process

\* fgets returns a message and encrypt_data fails: log, continue
ServerSenderEncryptFail(c) ==
    /\ Alive
    /\ server.sender[c] = "fgets"
    /\ server.stdin # <<>>
    /\ ServerMessage # EXIT
    /\ Failures < MaxServerFaults
    /\ server' = [AfterFgets(c) EXCEPT !.sender[c] = "lock",
                                       !.console = ServerLog(LOG_LEVEL_ERROR),
                                       !.failures.encrypt = @ + 1]
    /\ UNCHANGED process

\* send succeeds: the frame goes to the connection the descriptor refers to
ServerSenderSend(c) ==
    /\ Alive
    /\ server.sender[c] = "send"
    /\ ConnectionOf(server.fd[c]) # 0
    /\ server' = [server EXCEPT !.sender[c] = "lock"]
    /\ UNCHANGED process

\* send fails (the client has closed, or the descriptor is closed): log, break
ServerSenderSendFail(c) ==
    /\ Alive
    /\ server.sender[c] = "send"
    /\ \E d \in {ConnectionOf(server.fd[c])} :
          IF d = 0 THEN TRUE ELSE server.peer[d] = "closed"
    /\ server' = [server EXCEPT !.sender[c] = "done",
                                !.console = ServerLog(LOG_LEVEL_WARN)]
    /\ UNCHANGED process

\* send raises SIGPIPE (the client has closed): the server process is
\* terminated, the accept loop and every channel with it
ServerSenderSigpipe(c) ==
    /\ Alive
    /\ server.sender[c] = "send"
    /\ \E d \in {ConnectionOf(server.fd[c])} :
          d # 0 /\ server.peer[d] = "closed"
    /\ "sigpipe" \in SendOnClosedPeer
    /\ server' = [server EXCEPT !.pc = "crashed"]
    /\ UNCHANGED process

(***************************************************************************)
(* receiver_thread_func of connection c                                    *)
(***************************************************************************)
\* the recv of c is on its connection
ServerOnConnection(c) == server.sock[c] = "open" \/ server.held[c]

\* recv fails on the closed descriptor: log, break
ServerReceiverFail(c) ==
    /\ Alive
    /\ server.receiver[c] = "recv"
    /\ ServerSource(c) = 0
    /\ server' = [server EXCEPT !.receiver[c] = "done",
                                !.console = ServerLog(LOG_LEVEL_WARN)]
    /\ UNCHANGED process

\* recv returns 0: log, break
ServerReceiverClosed(c) ==
    /\ Alive
    /\ server.receiver[c] = "recv"
    /\ \E d \in {ServerSource(c)} :
          d # 0 /\ server.inbox[d] = <<>> /\ server.peer[d] = "closed"
    /\ server' = [server EXCEPT !.receiver[c] = "done",
                                !.held[c] = FALSE,
                                !.console = ServerLog(LOG_LEVEL_INFO)]
    /\ UNCHANGED process

\* recv returns a frame that is too short or fails to decrypt: log, continue
ServerReceiverBadFrame(c) ==
    /\ Alive
    /\ server.receiver[c] = "recv"
    /\ \E d \in {ServerSource(c)} :
          /\ d # 0
          /\ server.inbox[d] # <<>>
          /\ Head(server.inbox[d]) = "bad"
          /\ server' = [server EXCEPT !.inbox[d] = Tail(@),
                                      !.held[c] = FALSE,
                                      !.console = ServerLog(LOG_LEVEL_ERROR)]
    /\ UNCHANGED process

\* recv returns a frame and decrypt_data succeeds
ServerReceiverDecrypt(c) ==
    /\ Alive
    /\ server.receiver[c] = "recv"
    /\ \E d \in {ServerSource(c)} :
          /\ d # 0
          /\ server.inbox[d] # <<>>
          /\ Head(server.inbox[d]) = "good"
          /\ server' = [server EXCEPT !.receiver[c] = "lock",
                                      !.inbox[d] = Tail(@),
                                      !.held[c] = FALSE]
    /\ UNCHANGED process

\* lock the console and print the client's message
ServerReceiverDeliver(c) ==
    /\ Alive
    /\ server.receiver[c] = "lock"
    /\ server.console_mutex = <<>>
    /\ server' = [server EXCEPT
                     !.receiver[c] = "reprompt",
                     !.console = <<"message", c>>,
                     !.console_mutex = MutexAfterLock(@, <<c, "receiver">>)]
    /\ UNCHANGED process

\* print the prompt again, flush, unlock
ServerReceiverReprompt(c) ==
    /\ Alive
    /\ server.receiver[c] = "reprompt"
    /\ server' = [server EXCEPT
                     !.receiver[c] = "recv",
                     !.console = <<"prompt", c>>,
                     !.console_mutex =
                         IF @ = <<c, "receiver">> THEN <<>> ELSE @]
    /\ UNCHANGED process

(***************************************************************************)
(* The clients and the user at the server's terminal                       *)
(***************************************************************************)
\* a client connects
ClientConnect ==
    /\ Alive
    /\ server.connected < MaxClients
    /\ server' = [server EXCEPT !.connected = @ + 1,
                                !.peer[server.connected + 1] = "open"]
    /\ UNCHANGED process

\* the client of an accepted connection sends a frame
ClientSend(c) ==
    /\ Alive
    /\ server.peer[c] = "open"
    /\ ServerOnConnection(c)
    /\ server.frames < MaxClientFrames
    /\ \E frame \in {"good", "bad"} :
          server' = [server EXCEPT !.inbox[c] = Append(@, frame),
                                   !.frames = @ + 1]
    /\ UNCHANGED process

\* a client closes its end
ClientClose(c) ==
    /\ Alive
    /\ server.peer[c] = "open"
    /\ server' = [server EXCEPT !.peer[c] = "closed"]
    /\ UNCHANGED process

\* the user types a line
ServerUserInput ==
    /\ Alive
    /\ ~server.eof
    /\ server.typed < MaxServerLines
    /\ \E line \in ServerLines :
          server' = [server EXCEPT !.stdin = Append(@, line),
                                   !.typed = @ + 1]
    /\ UNCHANGED process

\* the user ends the input
ServerUserEof ==
    /\ Alive
    /\ ~server.eof
    /\ server' = [server EXCEPT !.eof = TRUE]
    /\ UNCHANGED process

(***************************************************************************)
(* The server                                                              *)
(***************************************************************************)
AcceptLoop ==
    \/ ServerAcceptFail
    \/ ServerAccept
    \/ ServerMallocFail
    \/ ServerMalloc
    \/ ServerCreateFail
    \/ ServerCreate

HandleClient(c) ==
    \/ HandlerCreateSender(c)
    \/ HandlerCreateSenderFail(c)
    \/ HandlerCreateReceiver(c)
    \/ HandlerCreateReceiverFail(c)
    \/ HandlerJoinSender(c)
    \/ HandlerClose(c)
    \/ HandlerJoinReceiver(c)

ServerSender(c) ==
    \/ ServerSenderLock(c)
    \/ ServerSenderPrompt(c)
    \/ ServerSenderUseAfterFree(c)
    \/ ServerSenderEof(c)
    \/ ServerSenderExit(c)
    \/ ServerSenderEncrypt(c)
    \/ ServerSenderEncryptFail(c)
    \/ ServerSenderSend(c)
    \/ ServerSenderSendFail(c)
    \/ ServerSenderSigpipe(c)

ServerReceiver(c) ==
    \/ ServerReceiverFail(c)
    \/ ServerReceiverClosed(c)
    \/ ServerReceiverBadFrame(c)
    \/ ServerReceiverDecrypt(c)
    \/ ServerReceiverDeliver(c)
    \/ ServerReceiverReprompt(c)

ServerEnvironment ==
    \/ ClientConnect
    \/ \E c \in Conns : ClientSend(c) \/ ClientClose(c)
    \/ ServerUserInput
    \/ ServerUserEof

ServerNext ==
    \/ AcceptLoop
    \/ \E c \in Conns : HandleClient(c) \/ ServerSender(c) \/ ServerReceiver(c)
    \/ ServerEnvironment

ServerSpec == ServerInit /\ [][ServerNext]_vars

(***************************************************************************)
(* Properties                                                              *)
(***************************************************************************)

\* C1: whichever of the two flows reaches Closed first, the connection is then
\* closed and the other flow reaches Closed as well, in both orders.
C1_EitherFlowClosedEndsChannel ==
    (spc = "done" \/ rpc = "done")
        ~> (sock = "closed" /\ spc = "done" /\ rpc = "done")

\* C2: once the client's sender has read "exit" or end-of-input it terminates,
\* the client closes the socket, the receiver eventually terminates and main
\* returns; the socket is closed only after the sender has terminated and
\* before the receiver is joined.
C2_ClientExitTeardown ==
    /\ [](role = "client" =>
            /\ sock = "closed" => spc = "done"
            /\ mpc \in {"join_receiver", "done"} => sock = "closed")
    /\ (role = "client" /\ ended.sender \in {"exit", "eof"})
          ~> (sock = "closed" /\ rpc = "done" /\ mpc = "done")

\* C3: after the client has closed its connection, the server's channel
\* eventually has both flows Closed, its socket closed and its data freed,
\* whatever happens on the server's standard input.
C3_ServerChannelReleasedAfterPeerClose ==
    (role = "server" /\ peer = "closed")
        ~> (spc = "done" /\ rpc = "done" /\ sock = "closed"
            /\ thread_data = "released")

\* C4 as stated: a read that returns fewer than 28 bytes, or a frame whose
\* decryption fails, prints nothing to the console, leaves the socket open and
\* the flow running, and is followed by another read.
C4_BadFrameSilent ==
    [][LET n == rcv'.bytes_received
           bad == /\ calls'.recv = calls.recv + 1
                  /\ n > 0
                  /\ n < IV_SIZE + TAG_SIZE
                        \/ rcv'.decrypt_ret # SECURE_COMM_SUCCESS
       IN  bad => /\ console' = console
                  /\ sock' = sock
                  /\ rpc' = "recv"]_vars

\* C4 amended: such a read delivers nothing (no message line, no prompt; what
\* reaches the console is the diagnostics only: the log line when no log file
\* is configured and decrypt_data's line on stderr), leaves the socket as it
\* is and the flow running, and is followed by another read.
C4_BadFrameDiscarded ==
    [][LET n == rcv'.bytes_received
           bad == /\ calls'.recv = calls.recv + 1
                  /\ n > 0
                  /\ n < IV_SIZE + TAG_SIZE
                        \/ rcv'.decrypt_ret # SECURE_COMM_SUCCESS
           new == console'.written - console.written
           len == Len(console'.last)
       IN  bad => /\ calls'.delivered = calls.delivered
                  /\ new <= len
                  /\ \A i \in (len - new + 1)..len :
                        console'.last[i][1] \in {"log", "stderr"}
                  /\ log_file = "file" /\ n < IV_SIZE + TAG_SIZE
                        => console' = console
                  /\ console_mutex' = console_mutex
                  /\ sock' = sock
                  /\ rpc' = "recv"]_vars

\* C4 witness: an over-long frame came in two reads on the open connection,
\* the first failed decryption and the second was too short, and the receiver
\* is back at recv having delivered nothing.
C4_BadFramesRead ==
    /\ rpc = "recv"
    /\ sock = "open"
    /\ calls.recv = 2
    /\ calls.decrypt_data = 1
    /\ calls.delivered = 0
    /\ rcv.bytes_received > 0
    /\ rcv.bytes_received < IV_SIZE + TAG_SIZE
    /\ console.written > 0

\* C5: when encrypt_data fails for a message, nothing is sent for it, the
\* connection stays open and the sender goes back to prompting.
C5_EncryptFailureDropsMessage ==
    [][LET failed == /\ calls'.encrypt_data = calls.encrypt_data + 1
                     /\ calls'.encrypt_ok = calls.encrypt_ok
       IN  failed => /\ calls'.send = calls.send
                     /\ outbox' = outbox
                     /\ snd' = SndIdle
                     /\ sock = "open" /\ sock' = "open"
                     /\ spc' = "lock"]_vars

\* C5 witness: after a failed encrypt_data the sender waits for the next line
\* on the open connection, nothing sent.
C5_PromptingAfterEncryptFailure ==
    /\ calls.encrypt_data = 1
    /\ calls.encrypt_ok = 0
    /\ calls.send = 0
    /\ spc = "fgets"
    /\ sock = "open"

\* C6: a read that returns zero or a negative value closes the inbound flow:
\* no further read, decryption or delivery follows.
C6_ReadEndClosesFlow ==
    [][/\ (calls'.recv = calls.recv + 1 /\ rcv'.bytes_received <= 0)
            => rpc' = "done"
       /\ rpc = "done" => /\ rpc' = "done"
                          /\ calls'.recv = calls.recv
                          /\ calls'.decrypt_data = calls.decrypt_data
                          /\ calls'.delivered = calls.delivered]_vars

\* C6 witness: the peer closed, the read returned 0 and the receiver is Closed
\* while the rest of the channel is still up.
C6_ReceiverClosedByPeer ==
    /\ rpc = "done"
    /\ ended.receiver = "closed"
    /\ rcv.bytes_received = 0
    /\ calls.recv > 0
    /\ mpc = "join_sender"

\* C7: "exit" and end-of-input end the flow without an encrypt or a send;
\* every other input line causes exactly one encrypt_data call and, when it
\* succeeds, exactly one send.
C7_OneEncryptPerLine ==
    (spc \in {"lock", "prompt", "fgets", "done"} /\ ~stdin.mid)
        => /\ calls.encrypt_data = calls.msglines
           /\ calls.send = calls.encrypt_ok

\* C8: every buffer passed to send is the 12-byte nonce, then the 16-byte tag,
\* then the ciphertext of the message, 28 + message length bytes in all.
C8_FrameLayout ==
    /\ spc = "send" =>
          /\ Len(snd.iv) = 12
          /\ Len(snd.tag) = 16
          /\ snd.msg_len = Len(snd.message)
          /\ snd.encrypted_msg
                = GcmCrypt(session_key, snd.iv, snd.message, snd.msg_len)
          /\ snd.tag
                = GcmTag(session_key, snd.iv, snd.encrypted_msg, snd.msg_len)
          /\ Frame = snd.iv \o snd.tag \o snd.encrypted_msg
          /\ Len(Frame) = 28 + snd.msg_len
    /\ \A i \in 1..Len(outbox) :
          /\ Len(outbox[i]) >= 28
          /\ \A j \in 1..Len(outbox[i]) : outbox[i][j] \in Byte

\* C8 witness: the empty message is about to be sent as a 28-byte frame.
C8_EmptyMessageFrame ==
    /\ spc = "send"
    /\ snd.msg_len = 0
    /\ Len(Frame) = 28

\* C9: decrypt_data on what encrypt_data produced, under the same key,
\* returns success, the plaintext's length and the plaintext's bytes.
C9_RoundTrip ==
    (codec.pc = "decrypted" /\ codec.changed = "no")
        => /\ codec.decrypt_ret = SECURE_COMM_SUCCESS
           /\ codec.len_written
           /\ codec.decrypted_len = Len(codec.plaintext)
           /\ codec.decrypted = codec.plaintext

\* C9 witness: a plaintext of the greatest length went through encrypt_data
\* and decrypt_data under the test's key.
C9_RoundTripDone ==
    /\ codec.pc = "decrypted"
    /\ codec.changed = "no"
    /\ codec.key = test_key
    /\ Len(codec.plaintext) = MaxPlainLen

\* C10: a changed tag, a changed ciphertext or another key makes decrypt_data
\* return an error; it never returns success with another plaintext.
C10_TamperDetected ==
    codec.pc = "decrypted"
        => /\ codec.changed # "no"
                => /\ codec.decrypt_ret = SECURE_COMM_ERR_DECRYPT
                   /\ ~codec.len_written
           /\ codec.decrypt_ret = SECURE_COMM_SUCCESS
                => /\ codec.decrypted = codec.plaintext
                   /\ codec.decrypted_len = Len(codec.plaintext)

\* C10 witness: decrypt_data refused a frame whose ciphertext had one bit
\* changed.
C10_ChangedCiphertextRefused ==
    /\ codec.pc = "decrypted"
    /\ codec.changed = "ciphertext"
    /\ codec.decrypt_ret = SECURE_COMM_ERR_DECRYPT

\* C11: when tag verification fails, decrypt_data returns an error, leaves
\* *plaintext_len unwritten and has written no decrypted bytes into the
\* caller's plaintext buffer.
C11_NoPlaintextOnTagFailure ==
    (codec.pc = "decrypted" /\ codec.changed # "no")
        => /\ codec.decrypt_ret = SECURE_COMM_ERR_DECRYPT
           /\ ~codec.len_written
           /\ codec.decrypted = <<>>

\* C12: a read that returns 1 to 27 bytes is rejected without a call of
\* decrypt_data; a read that returns 28 bytes or more is not rejected, and
\* decrypt_data is called on it with ciphertext length bytes_received - 28,
\* which is 0 for a read of exactly 28 bytes.
C12_ShortReadThreshold ==
    [][calls'.recv = calls.recv + 1 =>
         /\ rcv'.bytes_received \in 1..(IV_SIZE + TAG_SIZE - 1) =>
               /\ calls'.decrypt_data = calls.decrypt_data
               /\ calls'.delivered = calls.delivered
               /\ rpc' = "recv"
         /\ rcv'.bytes_received >= IV_SIZE + TAG_SIZE =>
               /\ calls'.decrypt_data = calls.decrypt_data + 1
               /\ rcv'.ciphertext_len = rcv'.bytes_received - 28
         /\ rcv'.bytes_received = 28 =>
               /\ rcv'.ciphertext_len = 0
               /\ rcv'.decrypt_ret = SECURE_COMM_SUCCESS => rcv'.decrypted_len = 0]_vars

\* a read of exactly 28 bytes has been decrypted, with ciphertext length 0
C12_MinimalFrameDecrypted ==
    /\ rcv.bytes_received = IV_SIZE + TAG_SIZE
    /\ rcv.ciphertext_len = 0
    /\ calls.decrypt_data = 1
    /\ rpc = "lock"

\* C13: decrypt_data reports every cause of failure (an invalid argument, a
\* failed step of the cipher setup, a tag that does not verify) with the one
\* value SECURE_COMM_ERR_DECRYPT, and returns no other value than that and
\* success.
C13_OneDecryptError ==
    codec.pc \in {"decrypted", "failed"}
        => /\ codec.decrypt_ret \in {SECURE_COMM_SUCCESS, SECURE_COMM_ERR_DECRYPT}
           /\ (codec.fault # "none" \/ codec.changed # "no")
                 => codec.decrypt_ret = SECURE_COMM_ERR_DECRYPT

\* decrypt_data was called with an invalid argument and has returned
C13_InvalidArgumentReported ==
    /\ codec.pc = "failed"
    /\ codec.fault = "args"
    /\ codec.decrypt_ret # SECURE_COMM_SUCCESS

\* the nonce a frame carries: its first IV_SIZE bytes
FrameNonce(frame) == SubSeq(frame, 1, IV_SIZE)

C16_ConsoleWritesUnderLock ==
    [][/\ console' # console
            => \/ /\ spc' # spc
                  /\ console_mutex = "sender"
               \/ /\ rpc' # rpc \/ calls'.recv # calls.recv
                  /\ "receiver" \in {console_mutex, console_mutex'}
       /\ rpc' = "reprompt"
            => console'.last[Len(console'.last)][1] = "message"]_vars

\* C17: the console lock is held by the sender only while it prints its
\* prompt and by the receiver only while it prints a message and the prompt:
\* never by a thread that is in fgets, recv or send.
C17_NoLockWhileBlocked ==
    /\ console_mutex = "sender" => spc = "prompt"
    /\ console_mutex = "receiver" => rpc = "reprompt"
    /\ spc \in {"fgets", "send"} => console_mutex # "sender"
    /\ rpc = "recv" => console_mutex # "receiver"

\* both threads have held the lock and released it, and are now in fgets and
\* in recv
C17_BothBlockedLockFree ==
    /\ spc = "fgets"
    /\ rpc = "recv"
    /\ calls.delivered = 1
    /\ console.written >= 3
    /\ console_mutex = "free"

RECURSIVE IsSubsequence(_, _)
\* a can be had from b by leaving elements of b out
IsSubsequence(a, b) ==
    IF a = <<>> THEN TRUE
    ELSE IF b = <<>> THEN FALSE
    ELSE IF Head(a) = Head(b) THEN IsSubsequence(Tail(a), Tail(b))
    ELSE IsSubsequence(a, Tail(b))

\* C18: the messages printed by the inbound flow are, in order, messages the
\* peer sent, each printed at most once and none that was not sent; a message
\* is printed before the read of any later frame.
C18_DeliveredInOrder ==
    /\ IsSubsequence(history.delivered, history.sent)
    /\ IsSubsequence(history.decrypted, history.sent)
    /\ calls.delivered = Len(history.delivered)
    /\ Len(history.delivered) <= Len(history.decrypted)
    /\ history.delivered = SubSeq(history.decrypted, 1, Len(history.delivered))
    /\ rpc \in {"recv", "done"} => history.delivered = history.decrypted
    /\ rpc = "lock" => Len(history.decrypted) = Len(history.delivered) + 1

\* the peer sent three messages, each read returned one of the frames, the
\* second was damaged on its way, the first and the third were printed
C18_TwoOfThreeDelivered ==
    /\ history.sent = <<HI, <<>>, HI>>
    /\ history.delivered = <<HI, HI>>
    /\ tampers = 1
    /\ calls.recv = 3
    /\ rpc = "recv"

\* C15: over all channels of the server, at most one thread is printing a
\* prompt (sender) or a message with the prompt after it (receiver), and the
\* one that is printing owns console_mutex.
C15_ConsoleSectionsExclusive ==
    LET printing ==
            {<<c, "sender">> : c \in {d \in Conns : server.sender[d] = "prompt"}}
                \cup {<<c, "receiver">> :
                         c \in {d \in Conns : server.receiver[d] = "reprompt"}}
    IN  /\ Cardinality(printing) <= 1
        /\ \A thread \in printing : server.console_mutex = thread
        /\ server.console_mutex # <<>> => server.console_mutex \in printing

\* the receiver of one channel is between its message and its prompt while
\* the sender of the other channel waits for the lock
C15_OtherChannelWaits ==
    /\ server.receiver[1] = "reprompt"
    /\ server.console_mutex = <<1, "receiver">>
    /\ server.sender[2] = "lock"

\* C19: a failed accept, a failed malloc and a failed pthread_create of the
\* handler thread each take main back to accept; after the latter two the
\* accepted socket has been closed exactly once and the connection has no
\* handler, sender or receiver thread, then and ever after.
C19_FailedIterationContinues ==
    [][/\ server'.failures.accept # server.failures.accept
            => /\ server'.pc = "accept"
               /\ server'.sock = server.sock
               /\ server'.closes = server.closes
               /\ server'.handler = server.handler
       /\ \/ server'.failures.malloc # server.failures.malloc
          \/ server'.failures.handler # server.failures.handler
            => /\ server'.pc = "accept"
               /\ server'.sock[server.client_sock] = "closed"
               /\ server'.closes[server.client_sock] = 1
               /\ server'.handler[server.client_sock] = "none"
               /\ server'.sender[server.client_sock] = "none"
               /\ server'.receiver[server.client_sock] = "none"
       /\ \A c \in Conns :
             server.sock[c] = "closed" /\ server.handler[c] = "none"
                => /\ server'.closes[c] = 1
                   /\ server'.handler[c] = "none"
                   /\ server'.sender[c] = "none"
                   /\ server'.receiver[c] = "none"]_vars

\* malloc failed for the first connection, and the second connection was
\* accepted after it and has its channel
C19_AcceptedAfterFailure ==
    /\ server.failures.malloc = 1
    /\ server.sock[1] = "closed"
    /\ server.closes[1] = 1
    /\ server.handler[1] = "none"
    /\ server.handler[2] = "join_sender"

\* C20: main is always in its loop at accept, malloc or pthread_create
\* (unless the process has gone down), and whatever the channels are doing,
\* accept returns when a connection waits and the steps after it do not wait:
\* no step of the loop waits for a channel.
C20_AcceptLoopNeverWaits ==
    /\ server.pc \in {"accept", "malloc", "create", "crashed"}
    /\ server.pc = "accept" /\ server.accepted < server.connected
          => ENABLED ServerAccept
    /\ server.pc = "malloc" => ENABLED ServerMalloc
    /\ server.pc = "create" => ENABLED ServerCreate

\* the second channel was started while the first one runs, its sender in
\* fgets and its receiver in recv
C20_TwoChannelsRunning ==
    /\ server.handler[1] = "join_sender"
    /\ server.sender[1] = "fgets"
    /\ server.receiver[1] = "recv"
    /\ server.handler[2] = "join_sender"
    /\ server.receiver[2] = "recv"
    /\ server.pc = "accept"

\* C21: a send that fails never terminates the process, and once the sender
\* has left its loop because of it the connection is closed and the receiver
\* terminates.
C21_SendFailureEndsChannelOnly ==
    /\ [](mpc # "killed")
    /\ (ended.sender = "send") ~> (sock = "closed" /\ rpc = "done")

\* ---------------------------------------------------------------------------
\* Sessions (src/session.c)
\* ---------------------------------------------------------------------------

SECURE_COMM_ERR_MEMORY == -9
SECURE_COMM_ERR_SESSION == -14
SHA256_DIGEST_LENGTH == 32

\* the generator asked of the parameter generation
DhGenerator == 2

\* the prime the generated parameters have (2048 bits in the code)
DhPrime == 23

\* the private keys a key generation can draw
MaxPrivate == 4

\* the derivations the harness compares
MaxDerivations == 2

\* the calls of terminate_session with a null pointer
MaxNullCalls == 1

\* the null pointer; a pointer that is set is the sequence of its one target
NULL == <<>>

\* a char pointer that is null
NullString == "(null)"

\* what the heap holds during a call
Blocks == {"session", "username", "dh_keypair", "peer_dh_public", "secret",
           "session_key", "pctx", "params", "kctx", "derivation_ctx"}

\* a heap nothing was allocated in
NoHeap == [b \in Blocks |-> [state |-> "none", frees |-> 0]]

\* malloc, strdup, EVP_PKEY_CTX_new, EVP_PKEY_dup: the block is live
Alloc(heap, b) == [heap EXCEPT ![b].state = "allocated"]

\* free, EVP_PKEY_free, EVP_PKEY_CTX_free: the block is released once more
Free(heap, b) == [heap EXCEPT ![b] = [state |-> "freed", frees |-> @.frees + 1]]

RECURSIVE Power(_, _)
\* base^exponent modulo the prime
Power(base, exponent) ==
    IF exponent = 0 THEN 1
    ELSE (base * Power(base, exponent - 1)) % DhPrime

\* the key pairs EVP_PKEY_keygen can produce
KeyPairs == {[private |-> x, public |-> Power(DhGenerator, x)] : x \in 1..MaxPrivate}

\* the public keys a peer can present
PeerPublics == {k.public : k \in KeyPairs}

\* EVP_PKEY_derive: the peer's public value raised to the own private value
EVP_PKEY_derive(keypair, peerkey) ==
    <<Power(peerkey[1].public, keypair[1].private)>>

\* a hash that copies its input
SHA256_Identity(secret) == secret

\* the digest of the shared secret, SHA256_DIGEST_LENGTH bytes
SHA256(secret) ==
    [i \in 1..SHA256_DIGEST_LENGTH |-> (secret[1] * 31 + i * 7) % 256]

\* a check of the user name alone
authenticate_user_NameOnly(username, password) ==
    IF username = "user" THEN SECURE_COMM_SUCCESS ELSE SECURE_COMM_ERR_SESSION

\* the one pair of credentials the code accepts
authenticate_user(username, password) ==
    IF username = "user" /\ password = "pass"
    THEN SECURE_COMM_SUCCESS
    ELSE SECURE_COMM_ERR_SESSION

\* the steps of initialize_session that can fail for lack of a resource
SessionFaults == {"none", "malloc_session", "strdup", "pctx_new", "paramgen_init",
                  "set_params", "paramgen", "kctx_new", "keygen_init", "keygen",
                  "dup", "derivation_ctx_new", "derive_init", "set_peer",
                  "derive_size", "malloc_secret", "derive", "malloc_key"}

\* generate_dh_keypair: the parameters, then the key pair; every path frees
\* the contexts and parameters it made
generate_dh_keypair(heap, generated, fault) ==
    IF fault = "pctx_new"
    THEN [ret |-> SECURE_COMM_ERR_SESSION, heap |-> heap, keypair |-> NULL]
    ELSE IF fault \in {"paramgen_init", "set_params", "paramgen"}
    THEN [ret |-> SECURE_COMM_ERR_SESSION,
          heap |-> Free(Alloc(heap, "pctx"), "pctx"), keypair |-> NULL]
    ELSE IF fault = "kctx_new"
    THEN [ret |-> SECURE_COMM_ERR_SESSION,
          heap |-> Free(Free(Alloc(Alloc(heap, "pctx"), "params"), "params"), "pctx"),
          keypair |-> NULL]
    ELSE LET made == Alloc(Alloc(Alloc(heap, "pctx"), "params"), "kctx")
             freed == Free(Free(Free(made, "params"), "pctx"), "kctx")
         IN  IF fault \in {"keygen_init", "keygen"}
             THEN [ret |-> SECURE_COMM_ERR_SESSION, heap |-> freed, keypair |-> NULL]
             ELSE [ret |-> SECURE_COMM_SUCCESS,
                   heap |-> Alloc(freed, "dh_keypair"), keypair |-> <<generated>>]

\* a session record after memset
EmptySession == [username |-> NullString, session_key |-> NULL, session_key_len |-> 0,
                 dh_keypair |-> NULL, peer_dh_public |-> NULL]

\* derive_shared_secret: the peer key is a duplicate of the own key pair, the
\* secret is derived from the two, hashed and released, the hash is the key
derive_shared_secret(heap, s, fault) ==
    IF s = NULL \/ s[1].dh_keypair = NULL
    THEN [ret |-> SECURE_COMM_ERR_SESSION, heap |-> heap, session |-> s,
          secret |-> NULL]
    ELSE IF fault = "dup"
    THEN [ret |-> SECURE_COMM_ERR_SESSION, heap |-> heap, session |-> s,
          secret |-> NULL]
    ELSE LET dup == Alloc(heap, "peer_dh_public")
             s1 == [s[1] EXCEPT !.peer_dh_public = s[1].dh_keypair]
             ctx == Alloc(dup, "derivation_ctx")
             secret == EVP_PKEY_derive(s1.dh_keypair, s1.peer_dh_public)
             derived == Free(Free(Alloc(ctx, "secret"), "derivation_ctx"), "secret")
             s2 == [s1 EXCEPT !.session_key_len = SHA256_DIGEST_LENGTH]
         IN  IF fault = "derivation_ctx_new"
             THEN [ret |-> SECURE_COMM_ERR_SESSION, heap |-> dup,
                   session |-> <<s1>>, secret |-> NULL]
             ELSE IF fault \in {"derive_init", "set_peer", "derive_size"}
             THEN [ret |-> SECURE_COMM_ERR_SESSION,
                   heap |-> Free(ctx, "derivation_ctx"), session |-> <<s1>>,
                   secret |-> NULL]
             ELSE IF fault = "malloc_secret"
             THEN [ret |-> SECURE_COMM_ERR_MEMORY,
                   heap |-> Free(ctx, "derivation_ctx"), session |-> <<s1>>,
                   secret |-> NULL]
             ELSE IF fault = "derive"
             THEN [ret |-> SECURE_COMM_ERR_SESSION,
                   heap |-> Free(Free(Alloc(ctx, "secret"), "secret"), "derivation_ctx"),
                   session |-> <<s1>>, secret |-> NULL]
             ELSE IF fault = "malloc_key"
             THEN [ret |-> SECURE_COMM_ERR_MEMORY, heap |-> derived,
                   session |-> <<s2>>, secret |-> secret]
             ELSE [ret |-> SECURE_COMM_SUCCESS,
                   heap |-> Alloc(derived, "session_key"),
                   session |-> <<[s2 EXCEPT !.session_key = SHA256(secret)]>>,
                   secret |-> secret]

\* the caller's pointer is written whatever the call returns
Returned_Always(ret, out, new_session) == new_session

\* the caller's pointer after the call: assigned on the success path alone
Returned(ret, out, new_session) ==
    IF ret = SECURE_COMM_SUCCESS THEN new_session ELSE out

\* initialize_session: arguments, record, credentials, user name, key pair,
\* session key, each failure releasing what the function itself allocated
initialize_session(username, password, has_out, out, generated, fault) ==
    LET none == [ret |-> SECURE_COMM_ERR_SESSION, heap |-> NoHeap, keygen |-> FALSE,
                 derive |-> FALSE, secret |-> NULL, new_session |-> NULL]
        record == Alloc(NoHeap, "session")
        auth_ret == authenticate_user(username, password)
        named == Alloc(record, "username")
        dh == generate_dh_keypair(named, generated, fault)
        keyed == [EmptySession EXCEPT !.username = username,
                                      !.dh_keypair = dh.keypair]
        sec == derive_shared_secret(dh.heap, <<keyed>>, fault)
        result ==
            IF username = NullString \/ password = NullString \/ ~has_out
            THEN none
            ELSE IF fault = "malloc_session"
            THEN [none EXCEPT !.ret = SECURE_COMM_ERR_MEMORY]
            ELSE IF auth_ret # SECURE_COMM_SUCCESS
            THEN [none EXCEPT !.ret = auth_ret, !.heap = Free(record, "session"),
                              !.new_session = <<EmptySession>>]
            ELSE IF fault = "strdup"
            THEN [none EXCEPT !.ret = SECURE_COMM_ERR_MEMORY,
                              !.heap = Free(record, "session"),
                              !.new_session = <<EmptySession>>]
            ELSE IF dh.ret # SECURE_COMM_SUCCESS
            THEN [none EXCEPT !.ret = dh.ret, !.keygen = TRUE,
                              !.new_session = <<keyed>>,
                              !.heap = Free(Free(dh.heap, "username"), "session")]
            ELSE IF sec.ret # SECURE_COMM_SUCCESS
            THEN [none EXCEPT !.ret = sec.ret, !.keygen = TRUE, !.derive = TRUE,
                              !.secret = sec.secret,
                              !.new_session = sec.session,
                              !.heap = Free(Free(Free(sec.heap, "dh_keypair"),
                                                 "username"), "session")]
            ELSE [ret |-> SECURE_COMM_SUCCESS, heap |-> sec.heap, keygen |-> TRUE,
                  derive |-> TRUE, secret |-> sec.secret,
                  new_session |-> sec.session]
    IN  [ret |-> result.ret, heap |-> result.heap, keygen |-> result.keygen,
         derive |-> result.derive, secret |-> result.secret,
         out |-> Returned(result.ret, out, result.new_session)]

\* the key bytes are left as they were
OPENSSL_cleanse_Skip(buffer, len) == buffer

\* OPENSSL_cleanse: len bytes of the buffer become zero
OPENSSL_cleanse(buffer, len) ==
    [i \in 1..Len(buffer) |-> IF i <= len THEN 0 ELSE buffer[i]]

\* terminate_session: nothing for a null pointer; else the key is cleansed and
\* freed, every other member that is set is freed, then the record
terminate_session(heap, s) ==
    IF s = NULL
    THEN [heap |-> heap, key_at_free |-> NULL]
    ELSE LET members == {"session"}
                 \cup (IF s[1].session_key # NULL THEN {"session_key"} ELSE {})
                 \cup (IF s[1].dh_keypair # NULL THEN {"dh_keypair"} ELSE {})
                 \cup (IF s[1].peer_dh_public # NULL THEN {"peer_dh_public"} ELSE {})
                 \cup (IF s[1].username # NullString THEN {"username"} ELSE {})
         IN  [heap |-> [b \in Blocks |->
                          IF b \in members
                          THEN [state |-> "freed", frees |-> heap[b].frees + 1]
                          ELSE heap[b]],
              key_at_free |->
                  IF s[1].session_key # NULL
                  THEN OPENSSL_cleanse(s[1].session_key, s[1].session_key_len)
                  ELSE NULL]

\* the credentials a caller can pass
Usernames == {"user", "guest", NullString}

\* the passwords a caller can pass
Passwords == {"pass", "wrongpass", NullString}

\* the harness before the call (tests/test1_session.c: session = NULL)
SessionStart(username, password, has_out, fault) ==
    [pc |-> "start", username |-> username, password |-> password,
     has_out |-> has_out, fault |-> fault, out |-> NULL,
     ret |-> SECURE_COMM_SUCCESS, heap |-> NoHeap, keygen |-> FALSE,
     derive |-> FALSE, secret |-> NULL, key_at_free |-> NULL,
     released_access |-> FALSE, null_calls |-> 0, derivations |-> {}]

SessionInit ==
    /\ ChanInit
    /\ role = "client"
    /\ log_file = "stdout"
    /\ codec = CodecIdle
    /\ history = NoHistory
    /\ server = ServerIdle
    /\ comp = CompIdle
    /\ conn = ConnIdle
    /\ locks = LocksIdle
    /\ \E username \in Usernames, password \in Passwords,
          has_out \in BOOLEAN, fault \in SessionFaults :
          session = SessionStart(username, password, has_out, fault)

\* everything but the session harness
beside_session == <<role, spc, rpc, mpc, console_mutex, sock, in_recv, peer,
                    inbox, outbox, stdin, typed, snd, rcv, console, logfile,
                    log_file, current_log_level, thread_data, calls,
                    peer_frames, tampers, faults, ended, codec, history,
                    server, key_copy, comp, conn, locks>>

\* initialize_session(username, password, &session)
SessionInitialize ==
    /\ session.pc = "start"
    /\ \E generated \in KeyPairs :
          \E r \in {initialize_session(session.username, session.password,
                                       session.has_out, session.out, generated,
                                       session.fault)} :
              session' = [session EXCEPT
                  !.pc = IF r.ret = SECURE_COMM_SUCCESS THEN "initialized"
                         ELSE "failed",
                  !.ret = r.ret, !.heap = r.heap, !.out = r.out,
                  !.keygen = r.keygen, !.derive = r.derive,
                  !.secret = r.secret]
    /\ UNCHANGED beside_session

\* terminate_session(session) on the session the call returned
SessionTerminate ==
    /\ session.pc = "initialized"
    /\ \E r \in {terminate_session(session.heap, session.out)} :
          session' = [session EXCEPT !.pc = "terminated", !.heap = r.heap,
                                     !.key_at_free = r.key_at_free]
    /\ UNCHANGED beside_session

\* terminate_session(NULL): the function returns at once
SessionTerminateNull ==
    /\ session.pc \in {"start", "failed"}
    /\ session.out = NULL
    /\ session.null_calls < MaxNullCalls
    /\ \E r \in {terminate_session(session.heap, session.out)} :
          session' = [session EXCEPT !.null_calls = @ + 1, !.heap = r.heap,
                                     !.key_at_free = r.key_at_free]
    /\ UNCHANGED beside_session

\* what a read of the released record can give: the members as they were,
\* members that read as null, or a fault
ReadOfReleased == {"stale", "cleared", "fault"}

\* terminate_session(session) once more: the caller's pointer still holds the
\* address of the released record, which the function reads
SessionTerminateAgain ==
    /\ session.pc = "terminated"
    /\ \E read \in ReadOfReleased :
          \E r \in {terminate_session(session.heap,
                        IF read = "stale" THEN session.out ELSE <<EmptySession>>)} :
              session' = [session EXCEPT
                  !.pc = IF read = "fault" THEN "crashed" ELSE "terminated_again",
                  !.released_access = TRUE,
                  !.heap = IF read = "fault" THEN @ ELSE r.heap]
    /\ UNCHANGED beside_session

\* derive_shared_secret on a session holding keypair, while the peer presents
\* the public key peer
SessionDerive ==
    /\ Cardinality(session.derivations) < MaxDerivations
    /\ \E keypair \in KeyPairs, peerkey \in PeerPublics :
          \E r \in {derive_shared_secret(Alloc(NoHeap, "dh_keypair"),
                        <<[EmptySession EXCEPT !.dh_keypair = <<keypair>>]>>, "none")} :
              /\ [keypair |-> keypair, peer |-> peerkey,
                  key |-> r.session[1].session_key] \notin session.derivations
              /\ session' = [session EXCEPT !.derivations = @ \cup
                     {[keypair |-> keypair, peer |-> peerkey,
                       key |-> r.session[1].session_key]}]
    /\ UNCHANGED beside_session

SessionNext ==
    \/ SessionInitialize
    \/ SessionTerminate
    \/ SessionTerminateNull
    \/ SessionTerminateAgain
    \/ SessionDerive

SessionSpec == SessionInit /\ [][SessionNext]_vars

\* ---------------------------------------------------------------------------
\* Sessions: claims
\* ---------------------------------------------------------------------------

\* C22: for every user name and password other than the valid pair,
\* initialize_session returns an error before any key pair is generated or any
\* key derived, leaves the caller's pointer unwritten and has released the
\* session record it allocated.
C22_InvalidCredentialsRejected ==
    (/\ session.pc \in {"failed", "initialized"}
     /\ ~(session.username = "user" /\ session.password = "pass"))
        => /\ session.pc = "failed"
           /\ session.ret # SECURE_COMM_SUCCESS
           /\ ~session.keygen
           /\ ~session.derive
           /\ session.out = NULL
           /\ session.heap["session"].state # "allocated"
           /\ \A b \in Blocks \ {"session"} : session.heap[b].state = "none"

\* a wrong password was refused after the record had been allocated
C22_WrongPasswordRefused ==
    /\ session.pc = "failed"
    /\ session.username = "user"
    /\ session.password = "wrongpass"
    /\ session.ret = SECURE_COMM_ERR_SESSION
    /\ session.heap["session"] = [state |-> "freed", frees |-> 1]

\* C23: initialize_session writes the caller's pointer on success alone, and
\* the session it then points to has a user name, a key pair, a peer public
\* key and a session key of 32 bytes; on every error the pointer is as it was.
C23_SessionWrittenOnSuccessOnly ==
    /\ session.pc = "initialized"
          => /\ session.ret = SECURE_COMM_SUCCESS
             /\ session.out # NULL
             /\ session.out[1].username # NullString
             /\ session.out[1].dh_keypair # NULL
             /\ session.out[1].peer_dh_public # NULL
             /\ session.out[1].session_key # NULL
             /\ Len(session.out[1].session_key) = 32
             /\ session.out[1].session_key_len = 32
    /\ session.pc = "failed"
          => /\ session.ret # SECURE_COMM_SUCCESS
             /\ session.out = NULL

\* a session was returned to the caller
C23_SessionReturned ==
    /\ session.pc = "initialized"
    /\ session.out # NULL
    /\ session.out[1].username = "user"

\* C24: whenever initialize_session returns an error, every block allocated
\* during the call (record, user name, key pair, peer public key, shared
\* secret, session key, library contexts) has been released.
C24_FailureReleasesEverything ==
    session.pc = "failed"
        => \A b \in Blocks : session.heap[b].state # "allocated"

\* C25: terminate_session on a live session overwrites all session_key_len
\* bytes of the key with zero before the key is freed, and frees the key, the
\* key pair, the peer public key, the user name and the record once each.
C25_TerminateWipesAndFreesOnce ==
    session.pc = "terminated"
        => /\ session.key_at_free = [i \in 1..session.out[1].session_key_len |-> 0]
           /\ Len(session.key_at_free) = Len(session.out[1].session_key)
           /\ \A b \in {"session_key", "dh_keypair", "peer_dh_public",
                        "username", "session"} :
                 session.heap[b] = [state |-> "freed", frees |-> 1]
           /\ \A b \in Blocks : session.heap[b].state # "allocated"

\* a live session was terminated
C25_SessionTerminated ==
    /\ session.pc = "terminated"
    /\ session.heap["session_key"].frees = 1
    /\ session.out[1].session_key # session.key_at_free

\* C26: terminate_session is idempotent: a null pointer changes nothing, and a
\* second call on a terminated session frees nothing again and reads no
\* released memory.
C26_TerminateIdempotent ==
    /\ (session.pc = "start" /\ session.null_calls > 0)
          => session.heap = NoHeap
    /\ session.pc \in {"terminated_again", "crashed"}
          => /\ ~session.released_access
             /\ \A b \in Blocks : session.heap[b].frees <= 1

\* C27: on success the session key is the 32-byte hash of the derived shared
\* secret, never the secret itself, and the buffer of the secret has been
\* released before the call returns.
C27_SessionKeyIsHashOfSecret ==
    session.pc = "initialized"
        => /\ session.secret # NULL
           /\ session.out[1].session_key = SHA256(session.secret)
           /\ Len(session.out[1].session_key) = SHA256_DIGEST_LENGTH
           /\ session.out[1].session_key # session.secret
           /\ session.heap["secret"] = [state |-> "freed", frees |-> 1]

\* a session key was derived from a secret that is held no more
C27_KeyDerived ==
    /\ session.pc = "initialized"
    /\ session.secret = <<6>>
    /\ session.out[1].session_key[1] = (6 * 31 + 7) % 256
    /\ session.heap["secret"].state = "freed"

\* C28: the session key is a function of the own key pair and the public key
\* of the peer: the same two give the same key, and one key pair with two
\* different peer public keys gives two different keys.
C28_KeyDependsOnPeer ==
    \A a, b \in session.derivations :
        a.keypair = b.keypair => (a.peer = b.peer <=> a.key = b.key)

\* C29: when a channel has ended and the storage of its data is released, the
\* channel's copy of the 32-byte session key has been overwritten with zeros.
C29_KeyZeroedBeforeRelease ==
    thread_data = "released" => key_copy = [i \in 1..KEY_SIZE |-> 0]

\* ---------------------------------------------------------------------------
\* Compression (src/compression.c)
\* ---------------------------------------------------------------------------

SECURE_COMM_ERR_COMPRESS == -12
SECURE_COMM_ERR_DECOMPRESS == -13

\* the factor by which decompress_data_dynamic expects data to grow
ExpansionEstimate == 10

\* the longest run of one byte in an input
MaxRun == 64

\* the longest tail after the run
MaxTail == 2

\* the bytes inputs are made of
CompBytes == {65, 66}

\* the levels a caller can pass, the valid 0..9 and one on either side
Levels == -1..10

\* n times the byte b
RunOf(b, n) == [i \in 1..n |-> b]

\* the inputs: a run of one byte and a short tail of another
CompInputs ==
    {RunOf(a, n) \o RunOf(b, m) : a \in CompBytes, b \in CompBytes,
                                  n \in 0..MaxRun, m \in 0..MaxTail}

\* compressBound of zlib for a short input
compressBound(sourceLen) == sourceLen + 13

RECURSIVE LeadingRun(_)
\* the length of the run of equal bytes data starts with
LeadingRun(data) ==
    IF Len(data) <= 1 THEN Len(data)
    ELSE IF data[2] = data[1] THEN 1 + LeadingRun(Tail(data))
    ELSE 1

RECURSIVE RunLengthCode(_)
\* the compressed form of data: a byte and a count for every run
RunLengthCode(data) ==
    IF data = <<>> THEN <<>>
    ELSE LET n == Min(LeadingRun(data), 255)
         IN  <<data[1], n>> \o RunLengthCode(SubSeq(data, n + 1, Len(data)))

RECURSIVE RunLengthExpand(_)
\* the data a sequence of bytes and counts stands for
RunLengthExpand(code) ==
    IF Len(code) < 2 THEN <<>>
    ELSE RunOf(code[1], code[2]) \o RunLengthExpand(SubSeq(code, 3, Len(code)))

RECURSIVE adler32(_)
\* the check value at the end of a stream
adler32(data) ==
    IF data = <<>> THEN 1
    ELSE (data[1] + adler32(Tail(data))) % 256

\* deflate(&strm, Z_FINISH): header, one block (stored at level 0 or when the
\* coded form is no shorter, coded otherwise), check value; Z_STREAM_END when
\* the whole stream fits the output buffer
deflate(input, level, avail_out) ==
    LET coded == RunLengthCode(input)
        block == IF level = 0 \/ Len(coded) >= Len(input)
                 THEN <<0>> \o input
                 ELSE <<1>> \o coded
        stream == <<120, level>> \o block \o <<adler32(input)>>
    IN  IF Len(stream) <= avail_out
        THEN [ret |-> "Z_STREAM_END", out |-> stream, total_out |-> Len(stream)]
        ELSE [ret |-> "Z_BUF_ERROR", out |-> SubSeq(stream, 1, avail_out),
              total_out |-> avail_out]

\* inflate(&strm, Z_FINISH): the data of the block; Z_STREAM_END when all of it
\* fits the output buffer and the check value agrees
inflate(compressed, avail_out) ==
    IF Len(compressed) < 4 \/ compressed[1] # 120 \/ compressed[3] \notin {0, 1}
    THEN [ret |-> "Z_DATA_ERROR", out |-> <<>>, total_out |-> 0]
    ELSE LET body == SubSeq(compressed, 4, Len(compressed) - 1)
             data == IF compressed[3] = 0 THEN body ELSE RunLengthExpand(body)
         IN  IF Len(data) > avail_out
             THEN [ret |-> "Z_BUF_ERROR", out |-> SubSeq(data, 1, avail_out),
                   total_out |-> avail_out]
             ELSE IF adler32(data) # compressed[Len(compressed)]
             THEN [ret |-> "Z_DATA_ERROR", out |-> data, total_out |-> Len(data)]
             ELSE [ret |-> "Z_STREAM_END", out |-> data, total_out |-> Len(data)]

\* compress_data_dynamic(input, input_len, &compressed, &compressed_len, level)
compress_data_dynamic(input, input_len, level, fault) ==
    LET failed == [ret |-> SECURE_COMM_ERR_COMPRESS, compressed |-> NULL,
                   compressed_len |-> 0]
        max_compressed_size == compressBound(input_len)
        strm == deflate(SubSeq(input[1], 1, input_len), level, max_compressed_size)
    IN  IF input = NULL THEN failed
        ELSE IF level < 0 \/ level > 9 THEN failed
        ELSE IF fault = "malloc"
        THEN [failed EXCEPT !.ret = SECURE_COMM_ERR_MEMORY]
        ELSE IF fault = "deflateInit" THEN failed
        ELSE IF strm.ret # "Z_STREAM_END" THEN failed
        ELSE [ret |-> SECURE_COMM_SUCCESS, compressed |-> <<strm.out>>,
              compressed_len |-> strm.total_out]

\* the size of the buffer decompress_data_dynamic allocates
EstimatedSize(compressed_len) == compressed_len * ExpansionEstimate

\* decompress_data_dynamic(compressed, compressed_len, &output, &output_len)
decompress_data_dynamic(compressed, compressed_len, fault) ==
    LET failed == [ret |-> SECURE_COMM_ERR_DECOMPRESS, output |-> NULL,
                   output_len |-> 0]
        estimated_decompressed_size == EstimatedSize(compressed_len)
        strm == inflate(SubSeq(compressed[1], 1, compressed_len),
                        estimated_decompressed_size)
    IN  IF compressed = NULL THEN failed
        ELSE IF fault = "malloc"
        THEN [failed EXCEPT !.ret = SECURE_COMM_ERR_MEMORY]
        ELSE IF fault = "inflateInit" THEN failed
        ELSE IF strm.ret # "Z_STREAM_END" THEN failed
        ELSE [ret |-> SECURE_COMM_SUCCESS, output |-> <<strm.out>>,
              output_len |-> strm.total_out]

\* the harness before the calls (tests/test_compression.c)
CompStart(input, level) ==
    [pc |-> "start", input |-> input, level |-> level, fault |-> "none",
     comp_ret |-> SECURE_COMM_SUCCESS, compressed |-> NULL, compressed_len |-> 0,
     decomp_ret |-> SECURE_COMM_SUCCESS, decompressed |-> NULL,
     decompressed_len |-> 0]

CompInit ==
    /\ ChanInit
    /\ role = "client"
    /\ log_file = "stdout"
    /\ codec = CodecIdle
    /\ history = NoHistory
    /\ server = ServerIdle
    /\ session = SessionIdle
    /\ conn = ConnIdle
    /\ locks = LocksIdle
    /\ \E input \in {NULL} \cup {<<x>> : x \in CompInputs}, level \in Levels :
          comp = CompStart(input, level)

\* everything but the compression harness
beside_comp == <<role, spc, rpc, mpc, console_mutex, sock, in_recv, peer,
                 inbox, outbox, stdin, typed, snd, rcv, console, logfile,
                 log_file, current_log_level, thread_data, calls,
                 peer_frames, tampers, faults, ended, codec, history,
                 server, key_copy, session, conn, locks>>

\* compress_data_dynamic(input, input_len, &compressed, &compressed_len, level)
CompCompress ==
    /\ comp.pc = "start"
    /\ \E fault \in {"none", "malloc", "deflateInit"} :
          \E r \in {compress_data_dynamic(comp.input,
                        IF comp.input = NULL THEN 0 ELSE Len(comp.input[1]),
                        comp.level, fault)} :
              comp' = [comp EXCEPT
                  !.pc = IF r.ret = SECURE_COMM_SUCCESS THEN "compressed"
                         ELSE "failed",
                  !.fault = fault, !.comp_ret = r.ret,
                  !.compressed = r.compressed,
                  !.compressed_len = r.compressed_len]
    /\ UNCHANGED beside_comp

\* decompress_data_dynamic(compressed, compressed_len, &decompressed, &len)
CompDecompress ==
    /\ comp.pc = "compressed"
    /\ \E fault \in {"none", "malloc", "inflateInit"} :
          \E r \in {decompress_data_dynamic(comp.compressed,
                                            comp.compressed_len, fault)} :
              comp' = [comp EXCEPT
                  !.pc = IF r.ret = SECURE_COMM_SUCCESS THEN "decompressed"
                         ELSE "failed",
                  !.fault = fault, !.decomp_ret = r.ret,
                  !.decompressed = r.output,
                  !.decompressed_len = r.output_len]
    /\ UNCHANGED beside_comp

CompNext ==
    \/ CompCompress
    \/ CompDecompress

CompSpec == CompInit /\ [][CompNext]_vars

\* C30: for every input that is not null and every level from 0 to 9,
\* decompress_data_dynamic applied to the output of compress_data_dynamic
\* returns success with the length and the bytes of the input, also when the
\* input compresses to less than a tenth of its size.
C30_RoundTrip ==
    (/\ comp.pc \in {"failed", "decompressed"}
     /\ comp.input # NULL
     /\ comp.level \in 0..9
     /\ comp.fault = "none")
        => /\ comp.pc = "decompressed"
           /\ comp.comp_ret = SECURE_COMM_SUCCESS
           /\ comp.decomp_ret = SECURE_COMM_SUCCESS
           /\ comp.decompressed_len = Len(comp.input[1])
           /\ comp.decompressed = comp.input

\* ---------------------------------------------------------------------------
\* Connections (src/networking.c)
\* ---------------------------------------------------------------------------

SECURE_COMM_ERR_SOCKET == -2
SECURE_COMM_ERR_ADDRESS == -3
SECURE_COMM_ERR_CONNECT == -4
SECURE_COMM_ERR_SSL_CTX == -5
SECURE_COMM_ERR_SSL == -6

\* what create_connection acquires
ConnResources == {"conn", "socket", "ssl_ctx", "ssl"}

\* nothing acquired
NoResources == [b \in ConnResources |-> [state |-> "none", frees |-> 0]]

\* the addresses a caller can pass: two in numeric form, a host name, an
\* empty string and no string
Addresses == {"127.0.0.1", "10.0.0.1", "localhost", "", NullString}

\* inet_pton(AF_INET, address, ...): 1 for an address in numeric form
inet_pton(address) ==
    IF address \in {"127.0.0.1", "10.0.0.1"} THEN 1 ELSE 0

\* the steps of create_connection that can fail whatever the arguments
ConnFaults == {"none", "malloc", "socket", "connect", "SSL_CTX_new", "SSL_new",
               "SSL_connect"}

\* the record is freed and the socket left open
CloseAndFree_NoClose(res) == Free(res, "conn")

\* close(conn->socket_fd); free(conn);
CloseAndFree(res) == Free(Free(res, "socket"), "conn")

\* create_connection(address, port, error): the connection or NULL, the value
\* stored in *error if any, and what is still held at the return
create_connection(address, has_error, fault) ==
    LET failed(code, res) == [ret |-> NULL, error_written |-> has_error,
                              error |-> IF has_error THEN code ELSE 0,
                              res |-> res]
        record == Alloc(NoResources, "conn")
        opened == Alloc(record, "socket")
        context == Alloc(opened, "ssl_ctx")
        object == Alloc(context, "ssl")
    IN  IF address = NullString \/ ~has_error
        THEN failed(SECURE_COMM_ERR_ADDRESS, NoResources)
        ELSE IF fault = "malloc"
        THEN failed(SECURE_COMM_ERR_MEMORY, NoResources)
        ELSE IF fault = "socket"
        THEN failed(SECURE_COMM_ERR_SOCKET, Free(record, "conn"))
        ELSE IF inet_pton(address) <= 0
        THEN failed(SECURE_COMM_ERR_ADDRESS, CloseAndFree(opened))
        ELSE IF fault = "connect"
        THEN failed(SECURE_COMM_ERR_CONNECT, CloseAndFree(opened))
        ELSE IF fault = "SSL_CTX_new"
        THEN failed(SECURE_COMM_ERR_SSL_CTX, CloseAndFree(opened))
        ELSE IF fault = "SSL_new"
        THEN failed(SECURE_COMM_ERR_SSL, CloseAndFree(Free(context, "ssl_ctx")))
        ELSE IF fault = "SSL_connect"
        THEN failed(SECURE_COMM_ERR_SSL,
                    CloseAndFree(Free(Free(object, "ssl"), "ssl_ctx")))
        ELSE [ret |-> <<"conn">>, error_written |-> TRUE,
              error |-> SECURE_COMM_SUCCESS, res |-> object]

\* close_connection(conn): nothing for NULL; else the TLS object and context
\* that are set are freed, the socket closed and the record freed
close_connection(c, res) ==
    IF c = NULL THEN res
    ELSE [b \in ConnResources |->
            IF b \in {"conn", "socket"} \/ res[b].state = "allocated"
            THEN [state |-> "freed", frees |-> res[b].frees + 1]
            ELSE res[b]]

\* the harness before the call
ConnStart(address, has_error, fault) ==
    [pc |-> "start", address |-> address, has_error |-> has_error,
     fault |-> fault, ret |-> NULL, error_written |-> FALSE, error |-> 0,
     res |-> NoResources]

ConnInit ==
    /\ ChanInit
    /\ role = "client"
    /\ log_file = "stdout"
    /\ codec = CodecIdle
    /\ history = NoHistory
    /\ server = ServerIdle
    /\ session = SessionIdle
    /\ comp = CompIdle
    /\ locks = LocksIdle
    /\ \E address \in Addresses, has_error \in BOOLEAN, fault \in ConnFaults :
          conn = ConnStart(address, has_error, fault)

\* everything but the connection harness
beside_conn == <<role, spc, rpc, mpc, console_mutex, sock, in_recv, peer,
                 inbox, outbox, stdin, typed, snd, rcv, console, logfile,
                 log_file, current_log_level, thread_data, calls,
                 peer_frames, tampers, faults, ended, codec, history,
                 server, key_copy, session, comp, locks>>

\* conn = create_connection(address, port, &error)
ConnCreate ==
    /\ conn.pc = "start"
    /\ \E r \in {create_connection(conn.address, conn.has_error, conn.fault)} :
          conn' = [conn EXCEPT
              !.pc = IF r.ret # NULL THEN "connected" ELSE "failed",
              !.ret = r.ret, !.error_written = r.error_written,
              !.error = r.error, !.res = r.res]
    /\ UNCHANGED beside_conn

\* close_connection(conn) with what create_connection returned
ConnClose ==
    /\ conn.pc \in {"connected", "failed"}
    /\ conn' = [conn EXCEPT !.pc = "closed",
                            !.res = close_connection(conn.ret, conn.res)]
    /\ UNCHANGED beside_conn

ConnNext ==
    \/ ConnCreate
    \/ ConnClose

ConnSpec == ConnInit /\ [][ConnNext]_vars

\* C31: create_connection returns a connection only with *error set to
\* success; on every failure it returns NULL, stores the code of the step that
\* failed in *error, and holds nothing it acquired earlier in the call: the
\* socket is closed, the TLS objects and the record are freed.
C31_ConnectionOrErrorAndNothingHeld ==
    /\ conn.pc = "connected"
          => /\ conn.ret # NULL
             /\ conn.error_written
             /\ conn.error = SECURE_COMM_SUCCESS
    /\ conn.pc = "failed"
          => /\ conn.ret = NULL
             /\ \A b \in ConnResources : conn.res[b].state # "allocated"
             /\ \A b \in ConnResources : conn.res[b].frees <= 1
             /\ conn.has_error
                   => /\ conn.error_written
                      /\ conn.error # SECURE_COMM_SUCCESS
                      /\ (conn.address # NullString /\ conn.fault = "socket")
                            => conn.error = SECURE_COMM_ERR_SOCKET
                      /\ (inet_pton(conn.address) <= 0
                             /\ conn.fault \notin {"malloc", "socket"})
                            => conn.error = SECURE_COMM_ERR_ADDRESS
                      /\ (inet_pton(conn.address) > 0 /\ conn.fault = "connect")
                            => conn.error = SECURE_COMM_ERR_CONNECT
                      /\ (inet_pton(conn.address) > 0 /\ conn.fault = "SSL_CTX_new")
                            => conn.error = SECURE_COMM_ERR_SSL_CTX
                      /\ (inet_pton(conn.address) > 0
                             /\ conn.fault \in {"SSL_new", "SSL_connect"})
                            => conn.error = SECURE_COMM_ERR_SSL

\* the handshake failed after socket, context and TLS object had been made
C31_HandshakeFailed ==
    /\ conn.pc = "failed"
    /\ conn.fault = "SSL_connect"
    /\ conn.error = SECURE_COMM_ERR_SSL
    /\ conn.res["ssl"] = [state |-> "freed", frees |-> 1]
    /\ conn.res["socket"] = [state |-> "freed", frees |-> 1]

\* ---------------------------------------------------------------------------
\* The flows at the console lock and the log lock (client.c, server.c, utils.c)
\* ---------------------------------------------------------------------------

SECURE_COMM_ERR_LOG == -16

\* the threads of the flows: one channel on the client, two on the server
Senders == IF role = "client" THEN {"sender1"} ELSE {"sender1", "sender2"}
Receivers == IF role = "client" THEN {"receiver1"} ELSE {"receiver1", "receiver2"}
Threads == Senders \cup Receivers

\* the level of each log_message call of the flows
SiteLevel(site) ==
    CASE site = "encrypt_fail" -> LOG_LEVEL_ERROR
      [] site = "send_fail" -> SendFailLevel
      [] site = "closed" -> PeerClosedLevel
      [] site = "recv_fail" -> RecvFailLevel
      [] site = "short" -> LOG_LEVEL_ERROR
      [] site = "decrypt_fail" -> LOG_LEVEL_ERROR

\* where the flow goes on after the log_message call: continue or break, by
\* the call site alone
Continuation(site) ==
    CASE site = "encrypt_fail" -> "prompt_lock"
      [] site \in {"short", "decrypt_fail"} -> "recv"
      [] site \in {"send_fail", "closed", "recv_fail"} -> "done"

\* the steps of log_message that can fail once the lock is held
LogFaults == {"none", "localtime", "strftime", "vsnprintf"}

\* a log_message that returns from a failed strftime without unlocking
LogReturn_StrftimeKeepsLock(fault) ==
    [ret |-> IF fault = "none" THEN SECURE_COMM_SUCCESS ELSE SECURE_COMM_ERR_LOG,
     log_mutex |-> IF fault = "strftime" THEN "kept" ELSE "free"]

\* what log_message returns and leaves of the lock, by the step that failed
LogReturn(fault) ==
    [ret |-> IF fault = "none" THEN SECURE_COMM_SUCCESS ELSE SECURE_COMM_ERR_LOG,
     log_mutex |-> "free"]

\* the console lock is kept until the end of the loop body
UnlockConsole_Late(owner) == owner

\* pthread_mutex_unlock(&console_mutex) after the prompt or the message
UnlockConsole(owner) == "free"

\* main before init_logging
LocksStart ==
    [pc |-> "init", current_log_level |-> LOG_LEVEL_INFO, log_file |-> "NULL",
     console_mutex |-> "free", log_mutex |-> "free",
     at |-> [t \in {"sender1", "sender2", "receiver1", "receiver2"} |-> "none"],
     site |-> [t \in {"sender1", "sender2", "receiver1", "receiver2"} |-> "none"],
     ret |-> SECURE_COMM_SUCCESS,
     init_ret |-> SECURE_COMM_SUCCESS]

LocksInit ==
    /\ ChanInit
    /\ codec = CodecIdle
    /\ history = NoHistory
    /\ server = ServerIdle
    /\ session = SessionIdle
    /\ comp = CompIdle
    /\ conn = ConnIdle
    /\ locks = LocksStart

\* everything but the threads at the locks
beside_locks == <<role, spc, rpc, mpc, console_mutex, sock, in_recv, peer,
                  inbox, outbox, stdin, typed, snd, rcv, console, logfile,
                  log_file, current_log_level, thread_data, calls,
                  peer_frames, tampers, faults, ended, codec, history,
                  server, key_copy, session, comp, conn>>

\* init_logging(level, path) in main: lock, level, fopen or stdout, unlock;
\* main goes on to start the threads only if it succeeded
LocksInitLogging ==
    /\ locks.pc = "init"
    /\ locks.log_mutex = "free"
    /\ \E level \in {LOG_LEVEL_ERROR, LOG_LEVEL_INFO},
          path \in {"", "file"}, fopen \in {"opened", "NULL"} :
          LET failed == path # "" /\ fopen = "NULL"
          IN  locks' = [locks EXCEPT
                  !.pc = IF failed THEN "exited" ELSE "running",
                  !.current_log_level = level,
                  !.log_file = IF path = "" THEN "stdout"
                               ELSE IF failed THEN "NULL" ELSE "file",
                  !.log_mutex = "free",
                  !.init_ret = IF failed THEN SECURE_COMM_ERR_LOG
                               ELSE SECURE_COMM_SUCCESS,
                  !.at = [t \in DOMAIN locks.at |->
                            IF failed \/ t \notin Threads THEN "none"
                            ELSE IF t \in Senders THEN "prompt_lock"
                            ELSE "recv"]]
    /\ UNCHANGED beside_locks

\* log_message(level, ...) up to its lock: returns at once when the level is
\* filtered, else waits for log_mutex
LogCall(t, site) ==
    IF SiteLevel(site) > locks.current_log_level
    THEN [locks EXCEPT !.at[t] = Continuation(site), !.site[t] = "none",
                       !.ret = SECURE_COMM_SUCCESS]
    ELSE [locks EXCEPT !.at[t] = "log", !.site[t] = site]

\* pthread_mutex_lock(&console_mutex) of the sender
FlowPromptLock(t) ==
    /\ t \in Senders
    /\ locks.at[t] = "prompt_lock"
    /\ locks.console_mutex = "free"
    /\ locks' = [locks EXCEPT !.console_mutex = MutexAfterLock(@, t),
                              !.at[t] = "prompt"]
    /\ UNCHANGED beside_locks

\* printf("You: "), fflush, pthread_mutex_unlock(&console_mutex)
FlowPromptUnlock(t) ==
    /\ t \in Senders
    /\ locks.at[t] = "prompt"
    /\ locks' = [locks EXCEPT !.console_mutex = UnlockConsole(@),
                              !.at[t] = "input"]
    /\ UNCHANGED beside_locks

\* fgets, encrypt_data, send: the line is sent, or is the sentinel or the end
\* of input, or encrypt_data or send fails and log_message is called
FlowInput(t) ==
    /\ t \in Senders
    /\ locks.at[t] = "input"
    /\ \E outcome \in {"sent", "exit", "encrypt_fail", "send_fail"} :
          locks' = IF outcome = "sent" THEN [locks EXCEPT !.at[t] = "prompt_lock"]
                   ELSE IF outcome = "exit" THEN [locks EXCEPT !.at[t] = "done"]
                   ELSE LogCall(t, outcome)
    /\ UNCHANGED beside_locks

\* recv, decrypt_data: a message to print, or a call of log_message
FlowRecv(t) ==
    /\ t \in Receivers
    /\ locks.at[t] = "recv"
    /\ \E outcome \in {"message", "closed", "recv_fail", "short", "decrypt_fail"} :
          locks' = IF outcome = "message" THEN [locks EXCEPT !.at[t] = "print_lock"]
                   ELSE LogCall(t, outcome)
    /\ UNCHANGED beside_locks

\* pthread_mutex_lock(&console_mutex) of the receiver
FlowPrintLock(t) ==
    /\ t \in Receivers
    /\ locks.at[t] = "print_lock"
    /\ locks.console_mutex = "free"
    /\ locks' = [locks EXCEPT !.console_mutex = MutexAfterLock(@, t),
                              !.at[t] = "print"]
    /\ UNCHANGED beside_locks

\* the message, the prompt, fflush, pthread_mutex_unlock(&console_mutex)
FlowPrintUnlock(t) ==
    /\ t \in Receivers
    /\ locks.at[t] = "print"
    /\ locks' = [locks EXCEPT !.console_mutex = UnlockConsole(@),
                              !.at[t] = "recv"]
    /\ UNCHANGED beside_locks

\* pthread_mutex_lock(&log_mutex) in log_message
FlowLogLock(t) ==
    /\ t \in Threads
    /\ locks.at[t] = "log"
    /\ locks.log_mutex = "free"
    /\ locks' = [locks EXCEPT !.log_mutex = MutexAfterLock(@, t),
                              !.at[t] = "logging"]
    /\ UNCHANGED beside_locks

\* log_message from localtime to its return: a failed step or the written
\* line, the unlock, and the flow going on as the call site says
FlowLogWrite(t) ==
    /\ t \in Threads
    /\ locks.at[t] = "logging"
    /\ \E fault \in LogFaults :
          \E r \in {LogReturn(fault)} :
              locks' = [locks EXCEPT
                  !.log_mutex = IF r.log_mutex = "free" THEN "free" ELSE @,
                  !.ret = r.ret,
                  !.at[t] = Continuation(locks.site[t]),
                  !.site[t] = "none"]
    /\ UNCHANGED beside_locks

FlowStep(t) ==
    \/ FlowPromptLock(t)
    \/ FlowPromptUnlock(t)
    \/ FlowInput(t)
    \/ FlowRecv(t)
    \/ FlowPrintLock(t)
    \/ FlowPrintUnlock(t)
    \/ FlowLogLock(t)
    \/ FlowLogWrite(t)

LocksNext ==
    \/ LocksInitLogging
    \/ \E t \in {"sender1", "sender2", "receiver1", "receiver2"} : FlowStep(t)

LocksSpec == LocksInit /\ [][LocksNext]_vars

\* a thread that can run does run
FairLocksSpec ==
    /\ LocksSpec
    /\ \A t \in {"sender1", "sender2", "receiver1", "receiver2"} :
          WF_vars(FlowStep(t))

\* C32: every call of init_logging and log_message returns with the log lock
\* released, on success and on every error path: the lock is held by a thread
\* only while it is inside log_message, a thread that holds it always comes to
\* release it, and where the flow goes on after the call depends on the call
\* site alone, not on the value returned.
C32_LogLockAlwaysReleased ==
    /\ [](\A t \in DOMAIN locks.at :
            locks.log_mutex = t <=> locks.at[t] = "logging")
    /\ [](locks.log_mutex \in {"free"} \cup DOMAIN locks.at)
    /\ [][\A t \in DOMAIN locks.at :
            (locks.at[t] = "logging" /\ locks'.at[t] # "logging")
                => /\ locks'.log_mutex = "free"
                   /\ locks'.at[t] = Continuation(locks.site[t])]_vars
    /\ \A t \in {"sender1", "sender2", "receiver1", "receiver2"} :
          (locks.log_mutex = t) ~> (locks.log_mutex # t)

\* a log call of one flow has failed and returned, and another flow holds the
\* log lock after it
C32_LockTakenAfterFailedCall ==
    /\ locks.ret = SECURE_COMM_ERR_LOG
    /\ locks.at["receiver1"] = "recv"
    /\ locks.log_mutex = "sender1"

\* C35: no thread holds the console lock and the log lock at the same time,
\* and none waits for one of them while it holds the other.
C35_NeverBothLocks ==
    \A t \in DOMAIN locks.at :
        /\ ~(locks.console_mutex = t /\ locks.log_mutex = t)
        /\ locks.console_mutex = t => locks.at[t] \in {"prompt", "print"}
        /\ locks.log_mutex = t => locks.at[t] = "logging"

\* one thread holds the console lock while another holds the log lock
C35_BothLocksHeldByTwoThreads ==
    /\ locks.console_mutex = "receiver1"
    /\ locks.log_mutex = "sender1"
    /\ locks.at["sender2"] = "prompt_lock"
    /\ locks.at["receiver2"] = "log"

(***************************************************************************)
(* The length of a frame against the peer's receive buffer                 *)
(***************************************************************************)
\* the peer's inbound flow reads with recv(sock, buffer, sizeof(buffer), 0)
\* into char buffer[BUFFER_SIZE]: the longest frame one read returns whole
ReceiveBuffer == BUFFER_SIZE

\* C33: every frame an outbound flow sends can be received whole by one read
\* of the peer: the header of IV_SIZE + TAG_SIZE bytes plus the message is
\* never longer than the peer's receive buffer.
C33_FrameFitsOneRead ==
    \A i \in 1..Len(outbox) : Len(outbox[i]) <= ReceiveBuffer

(***************************************************************************)
(* The data block of a connection and the threads that use it              *)
(***************************************************************************)
\* a flow thread of connection c that was started and has not returned
SenderRuns(c) == server.sender[c] \notin {"none", "done"}
ReceiverRuns(c) == server.receiver[c] \notin {"none", "done"}

\* C34: the data block of a connection is freed, and its socket closed by
\* handle_client's failure paths, only when no flow thread started for that
\* connection still runs: while the sender or the receiver of a connection
\* runs, the block is not freed.
C34_DataOutlivesFlowThreads ==
    \A c \in Conns :
        server.thread_data[c] = "freed" => ~SenderRuns(c) /\ ~ReceiverRuns(c)

(***************************************************************************)
(* Standard input shared by the senders of all channels                    *)
(***************************************************************************)
\* the sender of c returns from fgets with bytes of the input
ReadsInput(c) ==
    /\ server.sender[c] = "fgets"
    /\ server'.sender[c] # "fgets"
    /\ server'.stdin # server.stdin

\* the sender of c returns from a send that succeeded
SendsFrame(c) == server.sender[c] = "send" /\ server'.sender[c] = "lock"

\* C36: the senders of all channels read the same standard input, and each
\* input line is consumed by one channel's sender only (every part of it that
\* an fgets returns goes to the sender that got the part before) and is sent
\* on that channel's connection and on no other.
C36_LineReadAndSentByOneChannel ==
    [][\A c \in Conns :
          /\ ReadsInput(c) => server.reader \in {0, c}
          /\ SendsFrame(c) => ConnectionOf(server.fd[c]) = c]_vars

(***************************************************************************)
(* The sentinel on one channel of the server                               *)
(***************************************************************************)
\* what belongs to the channels other than c is as it was
OthersUnchanged(c) ==
    \A d \in Conns \ {c} :
        /\ server'.sock[d] = server.sock[d]
        /\ server'.closes[d] = server.closes[d]
        /\ server'.thread_data[d] = server.thread_data[d]
        /\ server'.handler[d] = server.handler[d]
        /\ server'.sender[d] = server.sender[d]
        /\ server'.receiver[d] = server.receiver[d]
        /\ server'.inbox[d] = server.inbox[d]
        /\ server'.peer[d] = server.peer[d]

\* C37: the sentinel closes only the channel whose sender read it: the step
\* that reads "exit", and every later step of the threads of that channel
\* (handle_client joining, closing and freeing, the receiver ending), leaves
\* the sockets, threads, data and frames of every other channel and the
\* accept loop as they were, and an accept that is due stays possible.
C37_ExitClosesOnlyItsChannel ==
    /\ [][\A c \in Conns :
             (server.quit[c] \/ server'.quit[c])
                 /\ (HandleClient(c) \/ ServerSender(c) \/ ServerReceiver(c))
             => /\ OthersUnchanged(c)
                /\ server'.pc = server.pc
                /\ server'.accepted = server.accepted]_vars
    /\ []((\E c \in Conns : server.quit[c])
             /\ server.pc = "accept" /\ AcceptReady
          => ENABLED ServerAccept)

(***************************************************************************)
(* One input line, one message unit                                        *)
(***************************************************************************)
\* C38: the sender treats one whole input line as one message: what it hands
\* to encrypt_data is a line from its first byte to its newline (never a part
\* of a line, with the rest left for a later read), and it ends on the
\* sentinel only when what fgets returned is a whole line, never the tail of a
\* longer one.
C38_WholeLineIsTheUnit ==
    [][/\ calls'.encrypt_data # calls.encrypt_data
              => ~stdin.mid /\ ~stdin'.mid
       /\ (ended.sender # "exit" /\ ended'.sender = "exit") => ~stdin.mid]_vars

(***************************************************************************)
(* The lengths the receiver works with: the peer sends frames of every     *)
(* length around the size of the receive buffer                            *)
(***************************************************************************)
MaxReadFrames == 2

\* the longest message whose frame fits one read
MaxWholeMessage == BUFFER_SIZE - IV_SIZE - TAG_SIZE

\* messages of every length from none to one byte more than fits one read
ReadMessages == {LongText(n) : n \in 0..(MaxWholeMessage + 1)}

PeerSendSized == PeerSendOf(ReadMessages, MaxReadFrames)

ReadNext ==
    \/ SenderLock
    \/ SenderPrompt
    \/ ReceiverStep
    \/ PeerSendSized
    \/ PeerClose
    \/ NetTamper

ReadSpec == Init /\ [][ReadNext]_vars

\* C39: for every read that returns n bytes with 28 <= n <= BUFFER_SIZE,
\* decrypt_data is called with ciphertext length n - 28, which is not
\* negative; when it succeeds the decrypted length is at most BUFFER_SIZE - 28
\* and the terminating zero byte is written at index decrypted_len, inside the
\* plaintext buffer of BUFFER_SIZE bytes.
C39_ReadLengthsStayInBounds ==
    [][(calls'.recv = calls.recv + 1
            /\ rcv'.bytes_received \in (IV_SIZE + TAG_SIZE)..BUFFER_SIZE)
         => /\ calls'.decrypt_data = calls.decrypt_data + 1
            /\ rcv'.ciphertext_len = rcv'.bytes_received - 28
            /\ rcv'.ciphertext_len >= 0
            /\ rcv'.decrypt_ret = SECURE_COMM_SUCCESS =>
                  /\ rcv'.decrypted_len <= BUFFER_SIZE - 28
                  /\ rcv'.decrypted_len + 1 <= BUFFER_SIZE
                  /\ Len(rcv'.decrypted_msg) = rcv'.decrypted_len + 1
                  /\ rcv'.decrypted_msg[rcv'.decrypted_len + 1] = 0]_vars

\* a read that filled the whole receive buffer has been decrypted: the longest
\* message one read can carry, with its terminator, is in the plaintext buffer
C39_FullBufferDecrypted ==
    /\ rcv.bytes_received = BUFFER_SIZE
    /\ rcv.ciphertext_len = BUFFER_SIZE - 28
    /\ rcv.decrypt_ret = SECURE_COMM_SUCCESS
    /\ rcv.decrypted_len = BUFFER_SIZE - 28
    /\ rpc = "lock"

=============================================================================
